---------------------------- MODULE Spec2Model ----------------------------
(***************************************************************************)
(* Fleet health monitor (go_services_dashboard): the per-service check     *)
(* cycle of internal/monitor (retry loop, circuit breaker, history ring),  *)
(* the registry lock, overlapping CheckAll invocations (the ticker loop of *)
(* Monitor.Start and the goroutine started by POST /api/refresh) and the   *)
(* on-demand TestActiveLink.                                               *)
(*                                                                         *)
(* Time is counted in periods of 5 minutes, the breaker's cooldown.        *)
(* time.Time{} (the zero time) is ZeroTime; the wall clock starts after    *)
(* it.  The diagnostics are kept as the fixed part of their text.          *)
(***************************************************************************)
EXTENDS Integers, Sequences, FiniteSets, TLC

\* ------------------------------------------------------------ bounds
\* Last period of the wall clock that the model explores.
MaxTime == 2
\* Probed cycles (write-backs) explored per service.
MaxCycles == 6
\* Registered services explored by the worker-pool specification.
MaxServices == 11
\* CheckAll invocations of Monitor.Start explored by it.
MaxRounds == 2
\* Updates broadcast while the subscriber queues are followed.
MaxUpdates == 51
\* Updates an observer takes from its queue.
MaxReceives == 1
\* AddService calls explored.
MaxAdds == 4
\* Updates broadcast while the events handlers are followed.
MaxEvents == 3
\* Calls of checker.TestActiveLink explored per record and network.
MaxTests == 1
\* Calls of TryInternalRequest explored per record and network.
MaxProbes == 1

\* ------------------------------------------------- program constants
FailureThreshold == 5
\* 5 * time.Minute, in periods of 5 minutes.
Cooldown == 1
MaxAttempts == 3
LastBackoffAttempt == 2
HistoryLimit == 5
ZeroTime == 0
\* numWorkers := 10
NumWorkers == 10
\* make(chan ServiceUpdate, 50)
QueueCap == 50

\* The registered services and the CheckAll invokers: the loop of
\* Monitor.Start and the goroutine of HandleRefresh.
Services == {"svc1"}
\* The registered services where a CheckAll is followed over several of them.
FleetServices == {"svc1", "svc2"}
Invokers == {"ticker", "refresh"}
Free == <<>>

VARIABLES
    svc,         \* registry.Services: id -> record (mutable fields)
    now,         \* wall clock, in periods of 5 minutes
    mu,          \* registry.Mu: <<goroutine, id>> holding it exclusively, or Free
    pc,          \* pc[p][s]: position of invoker p's cycle for service s
    attempt,     \* attempt[p][s]: loop variable of the retry loop
    result,      \* result[p][s]: the retry loop's CheckServiceResult
    calls,       \* calls[p][s]: Check Engine invocations of the current cycle
    test,        \* the TestActiveLink request in progress
    verdictLog,  \* verdictLog[s]: final verdicts written back, oldest first
    unsent,      \* unsent[s]: callers whose write-back awaits its broadcast, oldest first
    fleet,       \* number of registered services (len of GetAll's snapshot)
    loop,        \* position of Monitor.Start: "init", "checking", "waiting"
    tickPending, \* a tick is buffered in ticker.C
    rounds,      \* CheckAll invocations begun by Monitor.Start
    ca,          \* the CheckAll in progress: pc, workers spawned w, enqueued i
    jobs,        \* the jobs channel: buf (snapshot positions), cap, closed
    wg,          \* the WaitGroup's counter
    recv,        \* workers at `for svc := range jobs`
    running,     \* running[k]: workers inside CheckService(services[k])
    processed,   \* processed[k]: CheckService(services[k]) calls returned
    clients,     \* m.clients: the subscribed queues
    chans,       \* chans[c]: queue c: state (none, open, closed), buffer,
                 \*   updates offered to it so far, close(c) calls so far
    readers,     \* broadcasts holding m.clientsMu shared
    bc,          \* bc[b]: broadcast by b: pc and the queues still to visit
    received,    \* updates taken from the queues by observers so far
    eng,         \* a checker.CheckService caller: the record's connection
                 \*   fields, the network it meets, calls made, last result
    reg,         \* a models.Registry: its map Services, the records passed
                 \*   to AddService so far, the answer of the last query
    conn,        \* conn[c]: the HandleEvents call that owns queue c: its
                 \*   position, and whether its request context is done
    fixture      \* fixture[s]: what the probes of service s meet, whenever
                 \*   the Check Engine is called for s

cycleVars == <<pc, attempt, result, calls>>
poolVars == <<fleet, loop, tickPending, rounds, ca, jobs, wg, recv, running, processed>>
hubVars == <<clients, chans, readers, bc, received>>
monitorOnly == <<svc, now, mu, cycleVars, test, verdictLog, unsent>>
engineVars == <<eng>>
registryVars == <<reg>>
eventVars == <<conn>>
fixtureVars == <<fixture>>
restVars == <<engineVars, registryVars, eventVars, fixtureVars>>
vars == <<monitorOnly, poolVars, hubVars, restVars>>

\* ------------------------------------------------------- Check Engine
\* Outcomes of one Check Engine invocation's probes: liveness ok, example
\* ok, HTTP status of the public example request (0: transport error); the
\* version that an accepted health answer reports; the time the invocation
\* took, one unit per request.
ProbeOutcomes ==
    { [healthOK |-> b[1], exampleOK |-> b[2], code |-> b[3],
       healthError |-> IF b[1] THEN "" ELSE "Internal health",
       exampleError |-> IF b[2] THEN "" ELSE "Public HTTP",
       version |-> IF b[1] THEN "1.0.0" ELSE "",
       elapsed |-> IF b[2] THEN 2 ELSE 3] :
        b \in { <<TRUE, TRUE, 200>>, <<TRUE, FALSE, 404>>,
                 <<TRUE, FALSE, 500>>, <<TRUE, FALSE, 0>>,
                 <<FALSE, TRUE, 200>>, <<FALSE, FALSE, 0>> } }

OkFail(b) == IF b THEN "ok" ELSE "fail"

\* Mutant: the verdict ignores the example signal.
CheckServiceResultLivenessOnly(o) ==
    [Status |-> IF o.healthOK THEN "healthy" ELSE "unhealthy",
     HealthStatus |-> OkFail(o.healthOK),
     ExampleStatus |-> OkFail(o.exampleOK),
     LastError |-> IF o.healthOK THEN "" ELSE o.healthError,
     Version |-> o.version,
     ResponseMs |-> o.elapsed]

\* Mutant: a 500 from the example URL counts as degraded (> instead of >=).
CheckServiceResultAbove500(o) ==
    LET status == IF o.healthOK /\ o.exampleOK THEN "healthy"
                  ELSE IF ~o.healthOK THEN "unhealthy"
                  ELSE IF o.code > 500 \/ o.code = 0 THEN "unhealthy"
                  ELSE "degraded"
        lastError == IF o.healthOK /\ o.exampleOK THEN ""
                     ELSE IF ~o.healthOK THEN o.healthError
                     ELSE o.exampleError
    IN [Status |-> status,
        HealthStatus |-> OkFail(o.healthOK),
        ExampleStatus |-> OkFail(o.exampleOK),
        LastError |-> lastError,
        Version |-> o.version,
        ResponseMs |-> o.elapsed]

\* checker.CheckService, step 3: the verdict and the result record.
CheckServiceResult(o) ==
    LET status == IF o.healthOK /\ o.exampleOK THEN "healthy"
                  ELSE IF ~o.healthOK THEN "unhealthy"
                  ELSE IF o.code >= 500 \/ o.code = 0 THEN "unhealthy"
                  ELSE "degraded"
        lastError == IF o.healthOK /\ o.exampleOK THEN ""
                     ELSE IF ~o.healthOK THEN o.healthError
                     ELSE o.exampleError
    IN [Status |-> status,
        HealthStatus |-> OkFail(o.healthOK),
        ExampleStatus |-> OkFail(o.exampleOK),
        LastError |-> lastError,
        Version |-> o.version,
        ResponseMs |-> o.elapsed]

\* var result checker.CheckServiceResult (the zero value)
ZeroResult ==
    [Status |-> "", HealthStatus |-> "", ExampleStatus |-> "", LastError |-> "",
     Version |-> "", ResponseMs |-> 0]

\* checker.TestActiveLink: the result of an on-demand test.
TestOutcomes == {"passing", "failed"}
TestServiceResult(o) ==
    [Status |-> o, Error |-> IF o = "passing" THEN "OK" ELSE "Connection failed"]

\* GetInternalHosts: localhost, the record's docker name, "<id>-app-1",
\* each name once, in this order.
RECURSIVE Deduplicate(_, _)
Deduplicate(names, seen) ==
    IF names = <<>> THEN <<>>
    ELSE IF Head(names) \in seen \/ Head(names) = ""
         THEN Deduplicate(Tail(names), seen)
         ELSE <<Head(names)>> \o Deduplicate(Tail(names), seen \cup {Head(names)})

GetInternalHosts(c) ==
    Deduplicate(<<"localhost">>
                \o (IF c.DockerName # "" THEN <<c.DockerName>> ELSE <<>>)
                \o (IF c.ID # "" /\ c.ID # c.DockerName
                    THEN <<c.ID \o "-app-1">> ELSE <<>>),
                {})

\* GetInternalPorts: the record's port, then 8080 if that is another one.
GetInternalPorts(c) ==
    (IF c.Port > 0 THEN <<c.Port>> ELSE <<>>)
    \o (IF c.Port # 8080 THEN <<8080>> ELSE <<>>)

\* fmt.Sprintf("http://%s:%d%s", host, port, path) and url.Parse of it.
TargetURL(host, port, path) ==
    [scheme |-> "http", host |-> host, port |-> port, path |-> path]
Hostname(u) == u.host
NoURL == [scheme |-> "", host |-> "", port |-> 0, path |-> ""]

\* GetPathFromURL: u.RequestURI() of the URLs that the records carry.
HealthURLs == {"https://svc1/health"}
ExampleURLs == {"https://svc1/t?url=x"}
GetPathFromURL(rawURL) ==
    CASE rawURL = "https://svc1/health" -> "/health"
      [] rawURL = "https://svc1/t?url=x" -> "/t?url=x"
      [] OTHER -> "/"

\* The requests of one call, in the order sent: client.Get of a public URL,
\* or of one candidate of TryInternalRequest.
PublicRequest(rawURL) ==
    [kind |-> "public", host |-> "", port |-> 0,
     path |-> GetPathFromURL(rawURL)]
InternalRequest(u) ==
    [kind |-> "internal", host |-> u.host, port |-> u.port, path |-> u.path]

\* An error value: nil, the transport error of client.Get for a URL, or
\* fmt.Errorf("HTTP %d", resp.StatusCode).
NoErr == [msg |-> "", code |-> 0, url |-> NoURL]
TransportErr(u) == [msg |-> "Get", code |-> 0, url |-> u]
StatusErr(code) == [msg |-> "HTTP", code |-> code, url |-> NoURL]

\* for _, host := range hosts { for _, port := range ports { ... } }
RECURSIVE WithPorts(_, _)
WithPorts(host, ports) ==
    IF ports = <<>> THEN <<>>
    ELSE <<<<host, Head(ports)>>>> \o WithPorts(host, Tail(ports))

RECURSIVE HostMajor(_, _)
HostMajor(hosts, ports) ==
    IF hosts = <<>> THEN <<>>
    ELSE WithPorts(Head(hosts), ports) \o HostMajor(Tail(hosts), ports)

Candidates(c) == HostMajor(GetInternalHosts(c), GetInternalPorts(c))

\* The loop body of TryInternalRequest for the candidates left: `answer`
\* gives the status code that a candidate answers with (0: client.Get
\* returns an error), `tried` the requests sent so far.
RECURSIVE TryCandidates(_, _, _, _, _)
TryCandidates(cands, answer, path, tried, lastErr) ==
    IF cands = <<>>
    THEN [status |-> 0, url |-> NoURL, err |-> lastErr, tried |-> tried]
    ELSE LET targetURL == TargetURL(Head(cands)[1], Head(cands)[2], path)
             code == answer[Head(cands)]
             sent == Append(tried, InternalRequest(targetURL))
         IN IF code >= 200 /\ code < 500
            THEN [status |-> code, url |-> targetURL, err |-> NoErr,
                  tried |-> sent]
            ELSE TryCandidates(Tail(cands), answer, path, sent,
                               IF code = 0 THEN TransportErr(targetURL)
                               ELSE StatusErr(code))

\* TryInternalRequest(client, svc, path): response status, URL and error.
TryInternalRequest(c, answer, path) ==
    TryCandidates(Candidates(c), answer, path, <<>>, NoErr)

\* What a health endpoint answers: JSON with status healthy or ok, JSON with
\* another status, JSON without a status field, a 200 that is not JSON,
\* another HTTP status, no answer.
HealthAnswers ==
    {"ok200", "bad200", "nostatus200", "raw200", "http404", "err"}
HealthCode(a) ==
    CASE a \in {"ok200", "bad200", "nostatus200", "raw200"} -> 200
      [] a = "http404" -> 404
      [] OTHER -> 0
\* json.NewDecoder(resp.Body).Decode(&healthResp): whether it succeeds, and
\* the fields of healthResp after it.
Decode(a) ==
    CASE a = "ok200" -> [err |-> FALSE, Status |-> "ok", Version |-> "1.0.0"]
      [] a = "bad200" ->
           [err |-> FALSE, Status |-> "starting", Version |-> "1.0.0"]
      [] a = "nostatus200" ->
           [err |-> FALSE, Status |-> "", Version |-> "1.0.0"]
      [] OTHER -> [err |-> TRUE, Status |-> "", Version |-> ""]
\* What the public example URL answers, and the status code of each.
ExampleAnswers == {"json200", "html200", "http404", "http500", "err"}
ExampleCode(a) ==
    CASE a = "json200" -> 200
      [] a = "html200" -> 200
      [] a = "http404" -> 404
      [] a = "http500" -> 500
      [] OTHER -> 0
\* What a host that answers says to the example path inside the network: a
\* 200 whose JSON body has a result or tool field, another 200, a 4xx
\* status, or nothing.
InternalExampleAnswers == {"tool200", "ok", "http404", "err"}
InternalExampleCode(a) ==
    CASE a \in {"tool200", "ok"} -> 200
      [] a = "http404" -> 404
      [] OTHER -> 0

\* The connection fields of a record as config.LoadServices may leave them,
\* and the networks the Check Engine may meet.
EngineConfigs ==
    [ID : {"svc1"}, DockerName : {"", "docker1", "svc1"}, Port : {0, 8155},
     HealthURL : {""} \cup HealthURLs,
     ExampleURL : {""} \cup ExampleURLs]
EngineHostnames == {"localhost", "docker1", "svc1-app-1"}
EnginePorts == {8155, 8080}
Networks ==
    [up : SUBSET EngineHostnames,
     internalHealth : HealthAnswers \ {"err"},
     publicHealth : HealthAnswers,
     publicExample : ExampleAnswers,
     internalExample : InternalExampleAnswers]

\* What the candidates answer to a path in network fx: a host that is up
\* answers on each of its ports, any other host not at all.
InternalAnswers(fx, path) ==
    [cand \in (EngineHostnames \cup {"svc1"}) \X EnginePorts |->
        IF cand[1] \notin fx.up THEN 0
        ELSE IF path = "/health" THEN HealthCode(fx.internalHealth)
        ELSE InternalExampleCode(fx.internalExample)]

\* healthResp.Status == "healthy" || healthResp.Status == "ok"
HealthAccepted(d) == d.Status \in {"healthy", "ok"}

\* checker.CheckService, step 1: the liveness signal, its diagnostic, the
\* version, the docker name of the record after the step, and the requests
\* sent.  A 200 from inside the network settles the signal; anything else
\* falls back to the public health URL.
HealthProbe(c, fx) ==
    LET r == TryInternalRequest(c, InternalAnswers(fx, "/health"), "/health")
        d == Decode(fx.internalHealth)
    IN IF r.err = NoErr /\ r.status = 200
       THEN [ok |-> d.err \/ HealthAccepted(d),
             error |-> IF d.err \/ HealthAccepted(d) THEN ""
                       ELSE "Internal health status",
             version |-> IF ~d.err /\ HealthAccepted(d) THEN d.Version
                         ELSE "",
             dockerName |-> Hostname(r.url),
             sent |-> r.tried]
       ELSE LET e1 == IF r.err # NoErr THEN "Internal health: error"
                      ELSE "Internal health: HTTP"
                pd == Decode(fx.publicHealth)
                code == HealthCode(fx.publicHealth)
            IN IF c.HealthURL = ""
               THEN [ok |-> FALSE, error |-> e1, version |-> "",
                     dockerName |-> c.DockerName, sent |-> r.tried]
               ELSE [ok |-> code = 200 /\ (pd.err \/ HealthAccepted(pd)),
                     error |-> IF code = 200 THEN e1
                               ELSE IF code = 0
                               THEN e1 \o " | Public health: error"
                               ELSE e1 \o " | Public health: HTTP",
                     version |-> IF code = 200 /\ ~pd.err
                                    /\ HealthAccepted(pd)
                                 THEN pd.Version ELSE "",
                     dockerName |-> c.DockerName,
                     sent |-> Append(r.tried, PublicRequest(c.HealthURL))]

\* Mutant: the docker name becomes the first candidate host, whether or
\* not it answered.
DiscoveredFirstCandidate(c, fx) ==
    IF HealthProbe(c, fx).dockerName # c.DockerName
    THEN Head(GetInternalHosts(c)) ELSE c.DockerName

\* checker.CheckService, step 1: svc.DockerName = u.Hostname() after an
\* internal health answer with status 200.
Discovered(c, fx) == HealthProbe(c, fx).dockerName

\* Mutant: the internal example request is sent whatever the public one
\* answered.
PublicSettles(a) == FALSE

\* publicOK: a 2xx/3xx public answer whose Content-Type is not text/html.
PublicOK(a) ==
    ExampleCode(a) >= 200 /\ ExampleCode(a) < 400 /\ a # "html200"

\* checker.CheckService, step 2: the example signal, the status code of the
\* public request, the diagnostic and the requests sent.  The internal
\* request follows a public failure and goes to the hosts of the record as
\* step 1 left it.
ExampleProbe(c, fx) ==
    IF c.ExampleURL = ""
    THEN [ok |-> TRUE, code |-> 0, error |-> "No ExampleURL configured",
          sent |-> <<>>]
    ELSE LET a == fx.publicExample
             e1 == CASE a = "html200" -> "Public: Unexpected HTML"
                     [] a = "err" -> "Public Connection"
                     [] OTHER -> "Public HTTP"
             path == GetPathFromURL(c.ExampleURL)
             r == TryInternalRequest(c, InternalAnswers(fx, path), path)
             pub == <<PublicRequest(c.ExampleURL)>>
         IN IF PublicOK(a)
            THEN [ok |-> TRUE, code |-> ExampleCode(a), error |-> "",
                  sent |-> pub]
            ELSE IF r.err = NoErr /\ r.status >= 200 /\ r.status < 400
            THEN [ok |-> TRUE, code |-> ExampleCode(a),
                  error |-> e1 \o " | Internal OK", sent |-> pub \o r.tried]
            ELSE IF r.err = NoErr
            THEN [ok |-> FALSE, code |-> ExampleCode(a),
                  error |-> e1 \o " | Internal also failed",
                  sent |-> pub \o r.tried]
            ELSE [ok |-> FALSE, code |-> ExampleCode(a),
                  error |-> e1 \o " | Internal unreachable",
                  sent |-> pub \o r.tried]

\* checker.CheckService, steps 1 and 2: the signals that step 3 turns into
\* the verdict; the time the call took is one unit per request.
CheckServiceProbes(c, fx) ==
    LET h == HealthProbe(c, fx)
        e == ExampleProbe([c EXCEPT !.DockerName = h.dockerName], fx)
    IN [healthOK |-> h.ok, exampleOK |-> e.ok, code |-> e.code,
        healthError |-> h.error, exampleError |-> e.error,
        version |-> h.version, elapsed |-> Len(h.sent) + Len(e.sent),
        healthSent |-> h.sent, exampleSent |-> e.sent]

NoOutcome ==
    [healthOK |-> FALSE, exampleOK |-> FALSE, code |-> 0,
     healthError |-> "", exampleError |-> "", version |-> "", elapsed |-> 0,
     healthSent |-> <<>>, exampleSent |-> <<>>]

\* Mutant: the test asks /health whatever the record's example_url is.
TestPathHealthOnly(c) == "/health"

\* checker.TestActiveLink: the path it requests from the candidates.
TestPath(c) ==
    IF c.ExampleURL # "" THEN GetPathFromURL(c.ExampleURL) ELSE "/health"

\* checker.TestActiveLink(client, svc) in network fx: the result and the
\* requests sent.
TestActiveLink(c, fx) ==
    LET path == TestPath(c)
        r == TryInternalRequest(c, InternalAnswers(fx, path), path)
        passed == r.err = NoErr /\ r.status >= 200 /\ r.status < 400
    IN IF c.ExampleURL # ""
       THEN [Status |-> IF passed THEN "passing" ELSE "failed",
             Error |-> IF r.err # NoErr THEN "Connection failed"
                       ELSE IF ~passed THEN "HTTP " \o ToString(r.status)
                       ELSE IF fx.internalExample = "tool200" THEN "OK"
                       ELSE "HTTP " \o ToString(r.status) \o " in",
             sent |-> r.tried]
       ELSE [Status |-> IF passed THEN "passing" ELSE "failed",
             Error |-> IF passed THEN "Health OK"
                       ELSE "No ExampleURL configured",
             sent |-> r.tried]

\* No test has run.
NoTest == [Status |-> "", Error |-> "", sent |-> <<>>]

\* ------------------------------------------------------------ Monitor
CircuitOpenMsg == "Circuit Open (cooling down)"
TrippedMsg == "Circuit Breaker Tripped (5 failing checks)"

\* Mutant: a set deadline keeps the circuit open whatever the time.
CircuitOpenWhileSet(r, t) == r.CircuitOpenUntil # ZeroTime

\* !svc.CircuitOpenUntil.IsZero() && time.Now().Before(svc.CircuitOpenUntil)
CircuitOpen(r, t) == r.CircuitOpenUntil # ZeroTime /\ t < r.CircuitOpenUntil

\* Mutant: the circuit-open branch leaves the diagnostic alone.
SuppressStatusOnly(r) == [r EXCEPT !.Status = "unhealthy"]

\* Mutant: the circuit-open branch counts as one more failing check.
SuppressAndCount(r) ==
    [r EXCEPT !.Status = "unhealthy", !.LastError = CircuitOpenMsg,
              !.ConsecutiveFailures = @ + 1]

\* The circuit-open branch of CheckService: status and diagnostic only.
Suppress(r) == [r EXCEPT !.Status = "unhealthy", !.LastError = CircuitOpenMsg]

\* svc.ResponseMs..svc.LastError = result...; svc.Version = result.Version
\* unless that is empty.
StoreResult(r, res) ==
    [r EXCEPT !.ResponseMs = res.ResponseMs,
              !.Status = res.Status,
              !.HealthStatus = res.HealthStatus,
              !.ExampleStatus = res.ExampleStatus,
              !.LastError = res.LastError,
              !.Version = IF res.Version # "" THEN res.Version ELSE @]

\* Mutant: the breaker opens one failure late (> instead of >=).
CircuitUpdateLate(r, res, t) ==
    IF res.Status # "healthy"
    THEN LET n == r.ConsecutiveFailures + 1
         IN IF n > FailureThreshold
            THEN [r EXCEPT !.ConsecutiveFailures = n,
                           !.CircuitOpenUntil = t + Cooldown,
                           !.LastError = TrippedMsg]
            ELSE [r EXCEPT !.ConsecutiveFailures = n]
    ELSE [r EXCEPT !.ConsecutiveFailures = 0, !.CircuitOpenUntil = ZeroTime]

\* Mutant: a healthy verdict clears the deadline but keeps the counter.
CircuitUpdateNoReset(r, res, t) ==
    IF res.Status # "healthy"
    THEN LET n == r.ConsecutiveFailures + 1
         IN IF n >= FailureThreshold
            THEN [r EXCEPT !.ConsecutiveFailures = n,
                           !.CircuitOpenUntil = t + Cooldown,
                           !.LastError = TrippedMsg]
            ELSE [r EXCEPT !.ConsecutiveFailures = n]
    ELSE [r EXCEPT !.CircuitOpenUntil = ZeroTime]

\* Mutant: the deadline is the time of the trip, without the cooldown.
CircuitUpdateNoCooldown(r, res, t) ==
    IF res.Status # "healthy"
    THEN LET n == r.ConsecutiveFailures + 1
         IN IF n >= FailureThreshold
            THEN [r EXCEPT !.ConsecutiveFailures = n,
                           !.CircuitOpenUntil = t,
                           !.LastError = TrippedMsg]
            ELSE [r EXCEPT !.ConsecutiveFailures = n]
    ELSE [r EXCEPT !.ConsecutiveFailures = 0, !.CircuitOpenUntil = ZeroTime]

\* Mutant: a healthy verdict resets the counter but keeps the deadline.
CircuitUpdateKeepsDeadline(r, res, t) ==
    IF res.Status # "healthy"
    THEN LET n == r.ConsecutiveFailures + 1
         IN IF n >= FailureThreshold
            THEN [r EXCEPT !.ConsecutiveFailures = n,
                           !.CircuitOpenUntil = t + Cooldown,
                           !.LastError = TrippedMsg]
            ELSE [r EXCEPT !.ConsecutiveFailures = n]
    ELSE [r EXCEPT !.ConsecutiveFailures = 0]

\* Circuit Breaker State Update
CircuitUpdate(r, res, t) ==
    IF res.Status # "healthy"
    THEN LET n == r.ConsecutiveFailures + 1
         IN IF n >= FailureThreshold
            THEN [r EXCEPT !.ConsecutiveFailures = n,
                           !.CircuitOpenUntil = t + Cooldown,
                           !.LastError = TrippedMsg]
            ELSE [r EXCEPT !.ConsecutiveFailures = n]
    ELSE [r EXCEPT !.ConsecutiveFailures = 0, !.CircuitOpenUntil = ZeroTime]

\* Mutant: a full history drops the newest entry instead of the oldest.
AppendHistoryDropNewest(h, v) ==
    LET a == Append(h, v)
    IN IF Len(a) > HistoryLimit THEN SubSeq(a, 1, HistoryLimit) ELSE a

\* Mutant: the history is trimmed one entry late (> 5 checked before append).
AppendHistoryLate(h, v) ==
    IF Len(h) > HistoryLimit THEN Append(Tail(h), v) ELSE Append(h, v)

\* Track health history (last 5 checks)
AppendHistory(h, v) ==
    LET a == Append(h, v)
    IN IF Len(a) > HistoryLimit THEN Tail(a) ELSE a

\* Mutant: a failed test also marks the record unhealthy.
StoreTestAndStatus(r, res) ==
    [r EXCEPT !.TestStatus = res.Status, !.TestError = res.Error,
              !.Status = IF res.Status = "failed" THEN "unhealthy" ELSE @]

\* TestActiveLink: svc.TestStatus, svc.TestError
StoreTest(r, res) == [r EXCEPT !.TestStatus = res.Status, !.TestError = res.Error]

\* The whole write-back of CheckService, between Lock and Unlock.
WriteBackRecord(r, res, t) ==
    LET r1 == StoreResult(r, res)
        r2 == CircuitUpdate(r1, res, t)
    IN [r2 EXCEPT !.LastChecked = t,
                  !.HealthHistory = AppendHistory(r.HealthHistory, res.Status)]

\* Mutant: a backoff sleep follows the last attempt too.
AfterFailedAttemptAlwaysSleep(i) ==
    IF i < MaxAttempts THEN "sleep" ELSE "store"

\* After a non-healthy attempt: back off and retry, or leave the loop.
AfterFailedAttempt(i) ==
    IF i < LastBackoffAttempt THEN "sleep" ELSE "store"

\* The retry loop's exit: a healthy attempt breaks out of it.
AfterAttempt(res, i) ==
    IF res.Status = "healthy" THEN "store" ELSE AfterFailedAttempt(i)

InFlight(s) == Cardinality({p \in Invokers : pc[p][s] \notin {"idle", "done"}})

\* ---------------------------------------------------------------- Init
\* config.LoadServices: status "unknown", every other mutable field zero.
InitRecord ==
    [Status |-> "unknown", HealthStatus |-> "", ExampleStatus |-> "",
     LastError |-> "", HealthHistory |-> <<>>, ConsecutiveFailures |-> 0,
     CircuitOpenUntil |-> ZeroTime, TestStatus |-> "", TestError |-> "",
     LastChecked |-> ZeroTime, ResponseMs |-> 0, Version |-> ""]

IdleTest == [pc |-> "idle", id |-> ""]

\* Ids a client may put into POST /api/test/{id}: the registered ones and
\* one that is not registered.
TestIds == (DOMAIN svc) \cup {"nosuch"}

\* HTTP status codes of the answers of HandleManualTest.
StatusOK == 200
StatusNotFound == 404

\* HandleManualTest after TestActiveLink returned (status, errMsg, err):
\* 404 if err != nil, else 200 with the result as JSON.
ManualTestReply(id, status, errMsg, failed) ==
    IF failed
    THEN [pc |-> "reply", id |-> id, http |-> StatusNotFound,
          body |-> [error |-> "error"]]
    ELSE [pc |-> "reply", id |-> id, http |-> StatusOK,
          body |-> [id |-> id, test_status |-> status, test_error |-> errMsg]]

\* ServiceUpdate{ServiceID: svc.ID, Status: svc.Status, TestStatus:
\* result.Status, TestError: result.Error, ...}: the status is read from the
\* record after the unlock, the test fields come from the result.
TestUpdateOf(id, res) ==
    [ServiceID |-> id, Status |-> svc[id].Status,
     TestStatus |-> res.Status, TestError |-> res.Error]

\* Nothing written back that is still to be broadcast.
\* ServiceUpdate{ServiceID: svc.ID, Status: svc.Status, LastError:
\* svc.LastError, ...}, read from the record without the registry lock.
ServiceUpdateOf(s) ==
    [ServiceID |-> s, Status |-> svc[s].Status, LastError |-> svc[s].LastError]

\* The queues Subscribe can make, and the callers of broadcast: a worker's
\* CheckService and a test handler's TestActiveLink.
ChanIds == {"c1", "c2"}
Publishers == {"worker", "tester"}

NoChan == [state |-> "none", buf |-> <<>>, offered |-> 0, closes |-> 0]
IdleBroadcast == [pc |-> "idle", todo |-> {}]

\* NewMonitor: no subscriber; nothing was broadcast yet.
InitHub ==
    /\ clients = {}
    /\ chans = [c \in ChanIds |-> NoChan]
    /\ readers = {}
    /\ bc = [b \in Publishers |-> IdleBroadcast]
    /\ received = 0

\* Positions of the snapshot `services` of a CheckAll.
PoolIds == 1..MaxServices

IdleCheckAll == [pc |-> "idle", w |-> 0, i |-> 0]
NoJobs == [buf |-> <<>>, cap |-> 0, closed |-> FALSE]

\* The registry with the services S, the locals of the cycles and the test
\* handler at startup.
InitMonitorOf(S) ==
    /\ svc = [s \in S |-> InitRecord]
    /\ now = 1
    /\ mu = Free
    /\ pc = [p \in Invokers |-> [s \in S |-> "idle"]]
    /\ attempt = [p \in Invokers |-> [s \in S |-> 0]]
    /\ result = [p \in Invokers |-> [s \in S |-> ZeroResult]]
    /\ calls = [p \in Invokers |-> [s \in S |-> 0]]
    /\ test = IdleTest
    /\ verdictLog = [s \in S |-> <<>>]
    /\ unsent = [s \in S |-> <<>>]

InitMonitor == InitMonitorOf(Services)

\* Monitor.Start has not called CheckAll yet; n services are registered.
InitStart(n) ==
    /\ fleet = n
    /\ loop = "init"
    /\ tickPending = FALSE
    /\ rounds = 0
    /\ ca = IdleCheckAll
    /\ jobs = NoJobs
    /\ wg = 0
    /\ recv = 0
    /\ running = [k \in PoolIds |-> 0]
    /\ processed = [k \in PoolIds |-> 0]

\* A record with its connection fields and a network, before the Check
\* Engine is called for it.
InitEngine(c, fx) ==
    eng = [cfg |-> c, net |-> fx, calls |-> 0, probes |-> NoOutcome,
           out |-> ZeroResult, test |-> NoTest]

\* Ids and names that config.LoadServices may find in services.json, next
\* to the dashboard's own record.
SelfId == "services-dashboard"
RegistryIds == {SelfId, "svc1", "svc2"}
RegistryNames == {"name1", "name2"}
RegistryRecords == [ID : RegistryIds, Name : RegistryNames]
SelfRecord == [ID |-> SelfId, Name |-> SelfId]
NoQuery == [op |-> "none", at |-> 0]

\* NewRegistry: make(map[string]*Service).
InitRegistry ==
    reg = [Services |-> <<>>, added |-> <<>>, out |-> NoQuery]

\* The one record and the network that the other specifications leave
\* as they are.
InitEngineIdle ==
    InitEngine(CHOOSE c \in EngineConfigs : c.DockerName = "" /\ c.Port = 0
                   /\ c.HealthURL = "" /\ c.ExampleURL = "",
               CHOOSE fx \in Networks : fx.up = {}
                   /\ fx.internalHealth = "ok200" /\ fx.publicHealth = "err"
                   /\ fx.publicExample = "err" /\ fx.internalExample = "err")

\* HandleEvents has not seen its request context done.
InitEvents ==
    conn = [c \in ChanIds |-> [pc |-> "select", done |-> FALSE]]

\* Every service answers both probes, whenever it is asked.
AllHealthy ==
    [s \in FleetServices |->
        CHOOSE o \in ProbeOutcomes : o.healthOK /\ o.exampleOK]

\* The components that the specifications of the monitor leave as they are.
InitRest ==
    /\ InitEngineIdle
    /\ InitRegistry
    /\ InitEvents
    /\ fixture = AllHealthy

Init ==
    /\ InitMonitor
    /\ InitStart(Cardinality(Services))
    /\ InitHub
    /\ InitRest

\* The worker pool with any number of registered services.
InitPool ==
    /\ InitMonitor
    /\ \E n \in 0..MaxServices : InitStart(n)
    /\ InitHub
    /\ InitRest

\* -------------------------------------------------------------- actions
\* The wall clock advances.
Tick ==
    /\ now < MaxTime
    /\ now' = now + 1
    /\ UNCHANGED <<svc, mu, cycleVars, test, verdictLog>>
    /\ UNCHANGED <<poolVars, hubVars, restVars, unsent>>

\* The locals of a CheckService call that has not started or has returned.
ClearLocals(p, s) ==
    /\ attempt' = [attempt EXCEPT ![p][s] = 0]
    /\ result' = [result EXCEPT ![p][s] = ZeroResult]
    /\ calls' = [calls EXCEPT ![p][s] = 0]

\* CheckAll: snapshot the registry (GetAll, shared lock) and hand every
\* service to a worker.  The ticker loop calls it directly, HandleRefresh
\* in a goroutine of its own, any number of times (one at a time here).
CheckAllStart(p) ==
    /\ \A s \in DOMAIN svc : pc[p][s] = "idle"
    /\ mu = Free
    /\ \A s \in DOMAIN svc : Len(verdictLog[s]) + InFlight(s) < MaxCycles
    /\ pc' = [pc EXCEPT ![p] = [s \in DOMAIN svc |-> "start"]]
    /\ UNCHANGED <<svc, now, mu, attempt, result, calls, test, verdictLog>>
    /\ UNCHANGED <<poolVars, hubVars, restVars, unsent>>

\* CheckService: m.registry.Mu.Lock() before the circuit check.
GateLock(p, s) ==
    /\ pc[p][s] = "start"
    /\ mu = Free
    /\ mu' = <<p, s>>
    /\ pc' = [pc EXCEPT ![p][s] = "gate"]
    /\ UNCHANGED <<svc, now, attempt, result, calls, test, verdictLog>>
    /\ UNCHANGED <<poolVars, hubVars, restVars, unsent>>

\* Mutant: the suppressed cycle returns without the unlock.
GateSuppressKeepsLock(p, s) ==
    /\ pc[p][s] = "gate"
    /\ CircuitOpen(svc[s], now)
    /\ svc' = [svc EXCEPT ![s] = Suppress(svc[s])]
    /\ mu' = mu
    /\ pc' = [pc EXCEPT ![p][s] = "done"]
    /\ UNCHANGED <<now, attempt, result, calls, test, verdictLog>>
    /\ UNCHANGED <<poolVars, hubVars, restVars, unsent>>

\* Circuit open: write the cooldown diagnostic, unlock, return.
GateSuppress(p, s) ==
    /\ pc[p][s] = "gate"
    /\ CircuitOpen(svc[s], now)
    /\ svc' = [svc EXCEPT ![s] = Suppress(svc[s])]
    /\ mu' = Free
    /\ pc' = [pc EXCEPT ![p][s] = "done"]
    /\ UNCHANGED <<now, attempt, result, calls, test, verdictLog>>
    /\ UNCHANGED <<poolVars, hubVars, restVars, unsent>>

\* Mutant: a cooled-down breaker is closed before the probe (the counter
\* and the deadline are reset when the deadline has passed).
GatePassReset(p, s) ==
    /\ pc[p][s] = "gate"
    /\ ~CircuitOpen(svc[s], now)
    /\ svc' = IF svc[s].CircuitOpenUntil # ZeroTime
              THEN [svc EXCEPT ![s].ConsecutiveFailures = 0,
                               ![s].CircuitOpenUntil = ZeroTime]
              ELSE svc
    /\ mu' = Free
    /\ pc' = [pc EXCEPT ![p][s] = "attempt"]
    /\ UNCHANGED <<now, attempt, result, calls, test, verdictLog>>
    /\ UNCHANGED <<poolVars, hubVars, restVars, unsent>>

\* Circuit closed (or cooled down): unlock and enter the retry loop.
GatePass(p, s) ==
    /\ pc[p][s] = "gate"
    /\ ~CircuitOpen(svc[s], now)
    /\ mu' = Free
    /\ pc' = [pc EXCEPT ![p][s] = "attempt"]
    /\ UNCHANGED <<svc, now, attempt, result, calls, test, verdictLog>>
    /\ UNCHANGED <<poolVars, hubVars, restVars, unsent>>

\* One Check Engine invocation of the retry loop, and the loop's branch on
\* its result (break, sleep, or attempt++ past the loop condition).
Attempt(p, s) ==
    /\ pc[p][s] = "attempt"
    /\ \E o \in ProbeOutcomes :
         LET res == CheckServiceResult(o)
             nxt == AfterAttempt(res, attempt[p][s])
         IN /\ result' = [result EXCEPT ![p][s] = res]
            /\ pc' = [pc EXCEPT ![p][s] = nxt]
            /\ attempt' = [attempt EXCEPT ![p][s] =
                              IF res.Status # "healthy" /\ nxt = "store"
                              THEN @ + 1 ELSE @]
    /\ calls' = [calls EXCEPT ![p][s] = @ + 1]
    /\ UNCHANGED <<svc, now, mu, test, verdictLog>>
    /\ UNCHANGED <<poolVars, hubVars, restVars, unsent>>

\* time.Sleep returns; attempt++ and the loop condition.
Backoff(p, s) ==
    /\ pc[p][s] = "sleep"
    /\ attempt' = [attempt EXCEPT ![p][s] = @ + 1]
    /\ pc' = [pc EXCEPT ![p][s] =
                 IF attempt[p][s] + 1 < MaxAttempts THEN "attempt" ELSE "store"]
    /\ UNCHANGED <<svc, now, mu, result, calls, test, verdictLog>>
    /\ UNCHANGED <<poolVars, hubVars, restVars, unsent>>

\* m.registry.Mu.Lock() before the write-back.
StoreLock(p, s) ==
    /\ pc[p][s] = "store"
    /\ mu = Free
    /\ mu' = <<p, s>>
    /\ pc' = [pc EXCEPT ![p][s] = "write"]
    /\ UNCHANGED <<svc, now, attempt, result, calls, test, verdictLog>>
    /\ UNCHANGED <<poolVars, hubVars, restVars, unsent>>

\* Mutant: the write-back keeps the lock for the broadcast.
WriteBackKeepsLock(p, s) ==
    /\ pc[p][s] = "write"
    /\ svc' = [svc EXCEPT ![s] = WriteBackRecord(svc[s], result[p][s], now)]
    /\ verdictLog' = [verdictLog EXCEPT ![s] = Append(@, result[p][s].Status)]
    /\ mu' = mu
    /\ pc' = [pc EXCEPT ![p][s] = "broadcast"]
    /\ UNCHANGED <<now, attempt, result, calls, test>>
    /\ unsent' = [unsent EXCEPT ![s] = Append(@, p)]
    /\ UNCHANGED <<poolVars, hubVars, restVars>>

\* Write back, circuit update, history append, unlock.
WriteBack(p, s) ==
    /\ pc[p][s] = "write"
    /\ svc' = [svc EXCEPT ![s] = WriteBackRecord(svc[s], result[p][s], now)]
    /\ verdictLog' = [verdictLog EXCEPT ![s] = Append(@, result[p][s].Status)]
    /\ mu' = Free
    /\ pc' = [pc EXCEPT ![p][s] = "broadcast"]
    /\ UNCHANGED <<now, attempt, result, calls, test>>
    /\ unsent' = [unsent EXCEPT ![s] = Append(@, p)]
    /\ UNCHANGED <<poolVars, hubVars, restVars>>

\* m.broadcast(ServiceUpdateOf(s)); CheckService returns.  No observer
\* subscribes in the specifications of the cycle, so the range of broadcast
\* over m.clients is empty.
Broadcast(p, s) ==
    /\ pc[p][s] = "broadcast"
    /\ pc' = [pc EXCEPT ![p][s] = "done"]
    /\ ClearLocals(p, s)
    /\ UNCHANGED <<svc, now, mu, test, verdictLog>>
    /\ unsent' = [unsent EXCEPT ![s] = SelectSeq(@, LAMBDA q : q # p)]
    /\ UNCHANGED <<poolVars, hubVars, restVars>>

\* wg.Wait() returns: every cycle of this CheckAll has finished.
CheckAllReturn(p) ==
    /\ \A s \in DOMAIN svc : pc[p][s] = "done"
    /\ pc' = [pc EXCEPT ![p] = [s \in DOMAIN svc |-> "idle"]]
    /\ UNCHANGED <<svc, now, mu, attempt, result, calls, test, verdictLog>>
    /\ UNCHANGED <<poolVars, hubVars, restVars, unsent>>

\* Mutant: TestActiveLink goes on to the probe without the lookup.
TestStartNoLookup(id) ==
    /\ test.pc = "idle"
    /\ mu = Free
    /\ id \in TestIds
    /\ test' = [pc |-> "probe", id |-> id]
    /\ UNCHANGED <<svc, now, mu, cycleVars, verdictLog>>
    /\ UNCHANGED <<poolVars, hubVars, restVars, unsent>>

\* POST /api/test/{id}: TestActiveLink looks the id up under the shared
\* lock.  For a registered id checker.TestActiveLink sends its requests; for
\* any other id TestActiveLink returns "", "", nil and HandleManualTest
\* answers.
TestStart(id) ==
    /\ test.pc = "idle"
    /\ mu = Free
    /\ id \in TestIds
    /\ test' = IF id \in DOMAIN svc THEN [pc |-> "probe", id |-> id]
               ELSE ManualTestReply(id, "", "", FALSE)
    /\ UNCHANGED <<svc, now, mu, cycleVars, verdictLog>>
    /\ UNCHANGED <<poolVars, hubVars, restVars, unsent>>

\* checker.TestActiveLink returns its result; m.registry.Mu.Lock().
TestResult ==
    /\ test.pc = "probe"
    /\ mu = Free
    /\ mu' = <<"tester", test.id>>
    /\ \E o \in TestOutcomes :
         test' = [pc |-> "store", id |-> test.id, res |-> TestServiceResult(o)]
    /\ UNCHANGED <<svc, now, cycleVars, verdictLog>>
    /\ UNCHANGED <<poolVars, hubVars, restVars, unsent>>

\* svc.TestStatus, svc.TestError = result...; m.registry.Mu.Unlock().
TestStore ==
    /\ test.pc = "store"
    /\ svc' = [svc EXCEPT ![test.id] = StoreTest(@, test.res)]
    /\ mu' = Free
    /\ test' = [test EXCEPT !.pc = "broadcast"]
    /\ UNCHANGED <<now, cycleVars, verdictLog>>
    /\ UNCHANGED <<poolVars, hubVars, restVars, unsent>>

\* m.broadcast(TestUpdateOf(id, result)); TestActiveLink returns the
\* result, HandleManualTest answers with it and returns.  No observer
\* subscribes in this specification, so the range of broadcast over
\* m.clients is empty.
TestBroadcast ==
    /\ test.pc = "broadcast"
    /\ test' = IdleTest
    /\ UNCHANGED <<svc, now, mu, cycleVars, verdictLog>>
    /\ UNCHANGED <<poolVars, hubVars, restVars, unsent>>

\* HandleManualTest returns after its answer for an id that is not
\* registered.
TestReturn ==
    /\ test.pc = "reply"
    /\ test' = IdleTest
    /\ UNCHANGED <<svc, now, mu, cycleVars, verdictLog>>
    /\ UNCHANGED <<poolVars, hubVars, restVars, unsent>>

\* One step of a CheckAll invocation by p, or of one of its cycles.
CycleNext(p) ==
    \/ CheckAllStart(p)
    \/ CheckAllReturn(p)
    \/ \E s \in DOMAIN svc :
         \/ GateLock(p, s)
         \/ GateSuppress(p, s)
         \/ GatePass(p, s)
         \/ Attempt(p, s)
         \/ Backoff(p, s)
         \/ StoreLock(p, s)
         \/ WriteBack(p, s)
         \/ Broadcast(p, s)

\* The monitor with POST /api/refresh: CheckAll invocations may overlap.
Next ==
    \/ Tick
    \/ \E p \in Invokers : CycleNext(p)

Spec == Init /\ [][Next]_vars

\* The monitor with POST /api/test/{id}: the ticker's cycles and on-demand
\* tests.
NextTest ==
    \/ Tick
    \/ CycleNext("ticker")
    \/ \E id \in TestIds : TestStart(id)
    \/ TestResult
    \/ TestStore
    \/ TestBroadcast
    \/ TestReturn

SpecTest == Init /\ [][NextTest]_vars


\* ------------------------------------------------------ the worker pool
\* CheckAll as Monitor.Start calls it, with its pool of workers.  The
\* services are named by their position in the snapshot; a worker's call
\* of CheckService is followed from its start to its return (the cycle
\* itself is CycleNext above).
monitorVars == <<monitorOnly, hubVars, restVars>>

Sum(f) ==
    LET RECURSIVE S(_)
        S(k) == IF k = 0 THEN 0 ELSE f[k] + S(k - 1)
    IN S(MaxServices)

\* Workers of the current CheckAll that have returned.
Exited == ca.w - recv - Sum(running)

\* Mutant: the spawn loop runs once more (w <= numWorkers).
SpawnMoreInclusive(w) == w <= NumWorkers

\* for w := 0; w < numWorkers; w++
SpawnMore(w) == w < NumWorkers

\* services := GetAll(); jobs := make(chan, len(services)); var wg
BeginCheckAll ==
    /\ ca' = [pc |-> "spawn", w |-> 0, i |-> 0]
    /\ jobs' = [buf |-> <<>>, cap |-> fleet, closed |-> FALSE]
    /\ wg' = 0
    /\ recv' = 0
    /\ running' = [k \in PoolIds |-> 0]
    /\ processed' = [k \in PoolIds |-> 0]
    /\ rounds' = rounds + 1
    /\ loop' = "checking"

\* Monitor.Start: the initial check.
StartInitial ==
    /\ loop = "init"
    /\ rounds < MaxRounds
    /\ BeginCheckAll
    /\ UNCHANGED <<fleet, tickPending, monitorVars>>

\* Mutant: the loop starts the CheckAll of a tick without waiting for the
\* one before to return.
StartOnTickAsync ==
    /\ loop # "init"
    /\ tickPending
    /\ rounds < MaxRounds
    /\ tickPending' = FALSE
    /\ BeginCheckAll
    /\ UNCHANGED <<fleet, monitorVars>>

\* Monitor.Start: for range ticker.C { m.CheckAll() }
StartOnTick ==
    /\ loop = "waiting"
    /\ tickPending
    /\ rounds < MaxRounds
    /\ tickPending' = FALSE
    /\ BeginCheckAll
    /\ UNCHANGED <<fleet, monitorVars>>

\* The ticker fires; a tick that finds one buffered is dropped.
TickerFire ==
    /\ loop # "init"
    /\ ~tickPending
    /\ tickPending' = TRUE
    /\ UNCHANGED <<fleet, loop, rounds, ca, jobs, wg, recv, running, processed,
                   monitorVars>>

\* wg.Add(1); go func() {...}(): one more worker, at its range over jobs.
SpawnWorker ==
    /\ ca.pc = "spawn"
    /\ SpawnMore(ca.w)
    /\ ca' = [ca EXCEPT !.w = @ + 1]
    /\ wg' = wg + 1
    /\ recv' = recv + 1
    /\ UNCHANGED <<fleet, loop, tickPending, rounds, jobs, running, processed,
                   monitorVars>>

\* The spawn loop ends.
SpawnDone ==
    /\ ca.pc = "spawn"
    /\ ~SpawnMore(ca.w)
    /\ ca' = [ca EXCEPT !.pc = "enqueue"]
    /\ UNCHANGED <<fleet, loop, tickPending, rounds, jobs, wg, recv, running,
                   processed, monitorVars>>

\* jobs <- svc: blocks while the channel is full.
Enqueue ==
    /\ ca.pc = "enqueue"
    /\ ca.i < fleet
    /\ Len(jobs.buf) < jobs.cap
    /\ jobs' = [jobs EXCEPT !.buf = Append(@, ca.i + 1)]
    /\ ca' = [ca EXCEPT !.i = @ + 1]
    /\ UNCHANGED <<fleet, loop, tickPending, rounds, wg, recv, running,
                   processed, monitorVars>>

\* Mutant: the job queue is never closed.
CloseJobsForgotten ==
    /\ ca.pc = "enqueue"
    /\ ca.i = fleet
    /\ ca' = [ca EXCEPT !.pc = "wait"]
    /\ UNCHANGED <<fleet, loop, tickPending, rounds, jobs, wg, recv, running,
                   processed, monitorVars>>

\* close(jobs), after the last service was enqueued.
CloseJobs ==
    /\ ca.pc = "enqueue"
    /\ ca.i = fleet
    /\ jobs' = [jobs EXCEPT !.closed = TRUE]
    /\ ca' = [ca EXCEPT !.pc = "wait"]
    /\ UNCHANGED <<fleet, loop, tickPending, rounds, wg, recv, running,
                   processed, monitorVars>>

\* Mutant: a worker reads the head of the queue without removing it.
TakeJobPeek(q) == q

\* The queue after a worker received its head.
TakeJob(q) == Tail(q)

\* A worker receives a service from jobs and calls CheckService.
WorkerTake ==
    /\ recv > 0
    /\ jobs.buf # <<>>
    /\ running' = [running EXCEPT ![Head(jobs.buf)] = @ + 1]
    /\ jobs' = [jobs EXCEPT !.buf = TakeJob(@)]
    /\ recv' = recv - 1
    /\ UNCHANGED <<fleet, loop, tickPending, rounds, ca, wg, processed,
                   monitorVars>>

\* CheckService returns; the worker is back at its range over jobs.
WorkerFinish(k) ==
    /\ running[k] > 0
    /\ running' = [running EXCEPT ![k] = @ - 1]
    /\ processed' = [processed EXCEPT ![k] = @ + 1]
    /\ recv' = recv + 1
    /\ UNCHANGED <<fleet, loop, tickPending, rounds, ca, jobs, wg, monitorVars>>

\* The range over the closed, drained queue ends: defer wg.Done().
WorkerExit ==
    /\ recv > 0
    /\ jobs.buf = <<>>
    /\ jobs.closed
    /\ recv' = recv - 1
    /\ wg' = wg - 1
    /\ UNCHANGED <<fleet, loop, tickPending, rounds, ca, jobs, running,
                   processed, monitorVars>>

\* wg.Wait() returns and CheckAll with it; Start waits for the next tick.
WaitReturn ==
    /\ ca.pc = "wait"
    /\ wg = 0
    /\ ca' = [ca EXCEPT !.pc = "idle"]
    /\ loop' = "waiting"
    /\ UNCHANGED <<fleet, tickPending, rounds, jobs, wg, recv, running,
                   processed, monitorVars>>

\* One step of the CheckAll in progress or of one of its workers.
PoolStep ==
    \/ SpawnWorker
    \/ SpawnDone
    \/ Enqueue
    \/ CloseJobs
    \/ WorkerTake
    \/ \E k \in PoolIds : WorkerFinish(k)
    \/ WorkerExit
    \/ WaitReturn

NextPool ==
    \/ StartInitial
    \/ StartOnTick
    \/ TickerFire
    \/ PoolStep

SpecPool == InitPool /\ [][NextPool]_vars

\* The scheduler runs a goroutine of the pool whenever one can take a step,
\* and every Check Engine invocation returns.
SpecPoolFair == SpecPool /\ WF_vars(PoolStep)

\* ------------------------------------------------------ the subscribers
\* Subscribe, Unsubscribe and broadcast of the Monitor, called by any
\* number of observers, workers and test handlers.  An update in a queue
\* is kept as its rank among the updates offered to that queue.
\* Mutant: a send to a full queue makes room by dropping the oldest update.
SendDropOldest(q) ==
    [q EXCEPT !.offered = @ + 1,
              !.buf = IF Len(@) < QueueCap THEN Append(@, q.offered + 1)
                      ELSE Append(Tail(@), q.offered + 1)]

\* select { case ch <- update: default: }
Send(q) ==
    [q EXCEPT !.offered = @ + 1,
              !.buf = IF Len(@) < QueueCap THEN Append(@, q.offered + 1) ELSE @]

\* Subscribe: make a queue and add it to the set, under the exclusive lock.
Subscribe(c) ==
    /\ chans[c].state = "none"
    /\ readers = {}
    /\ chans' = [chans EXCEPT ![c].state = "open"]
    /\ clients' = clients \cup {c}
    /\ UNCHANGED <<readers, bc, received, monitorOnly, poolVars, restVars>>

\* Mutant: Unsubscribe closes the queue whether or not it is in the set.
UnsubscribedAlwaysClose(c) ==
    [chans[c] EXCEPT !.state = "closed", !.closes = @ + 1]

\* The queue after Unsubscribe(c): closed if it was in the set.
Unsubscribed(c) ==
    IF c \in clients
    THEN [chans[c] EXCEPT !.state = "closed", !.closes = @ + 1]
    ELSE chans[c]

\* Unsubscribe: under the exclusive lock, delete and close if present.
Unsubscribe(c) ==
    /\ readers = {}
    /\ chans' = [chans EXCEPT ![c] = Unsubscribed(c)]
    /\ clients' = clients \ {c}
    /\ UNCHANGED <<readers, bc, received, monitorOnly, poolVars, restVars>>

\* Mutant: broadcast ranges over every queue ever made.
BroadcastTargetsAll == {c \in ChanIds : chans[c].state # "none"}

\* for ch := range m.clients
BroadcastTargets == clients

\* Updates on their way to queue c.
Pending(c) == Cardinality({b \in Publishers : c \in bc[b].todo})

\* broadcast(update): take the shared lock and start the range.
BroadcastBegin(b) ==
    /\ bc[b].pc = "idle"
    /\ \A c \in BroadcastTargets : chans[c].offered + Pending(c) < MaxUpdates
    /\ readers' = readers \cup {b}
    /\ bc' = [bc EXCEPT ![b] = [pc |-> "range", todo |-> BroadcastTargets]]
    /\ UNCHANGED <<clients, chans, received, monitorOnly, poolVars, restVars>>

\* One iteration of the range: the non-blocking send to queue c.
BroadcastSend(b, c) ==
    /\ bc[b].pc = "range"
    /\ c \in bc[b].todo
    /\ chans' = [chans EXCEPT ![c] = Send(@)]
    /\ bc' = [bc EXCEPT ![b].todo = @ \ {c}]
    /\ UNCHANGED <<clients, readers, received, monitorOnly, poolVars, restVars>>

\* The range ends: release the shared lock (deferred), return.
BroadcastEnd(b) ==
    /\ bc[b].pc = "range"
    /\ bc[b].todo = {}
    /\ readers' = readers \ {b}
    /\ bc' = [bc EXCEPT ![b] = IdleBroadcast]
    /\ UNCHANGED <<clients, chans, received, monitorOnly, poolVars, restVars>>

\* HandleEvents: update := <-ch
Receive(c) ==
    /\ chans[c].state = "open"
    /\ chans[c].buf # <<>>
    /\ received < MaxReceives
    /\ received' = received + 1
    /\ chans' = [chans EXCEPT ![c].buf = Tail(@)]
    /\ UNCHANGED <<clients, readers, bc, monitorOnly, poolVars, restVars>>

NextHub ==
    \/ \E c \in ChanIds : Subscribe(c)
    \/ \E c \in ChanIds : Unsubscribe(c)
    \/ \E c \in ChanIds : Receive(c)
    \/ \E b \in Publishers : BroadcastBegin(b)
    \/ \E b \in Publishers, c \in ChanIds : BroadcastSend(b, c)
    \/ \E b \in Publishers : BroadcastEnd(b)

SpecHub == Init /\ [][NextHub]_vars

\* ----------------------------------------------------- the Check Engine
\* checker.CheckService called for one record, as the retry loop of a cycle
\* calls it: up to 3 times, without the registry lock, meeting the same
\* network.  The call writes svc.DockerName and returns its result.
EngineCall ==
    /\ eng.calls < MaxAttempts
    /\ LET o == CheckServiceProbes(eng.cfg, eng.net)
       IN eng' = [eng EXCEPT !.cfg.DockerName = Discovered(eng.cfg, eng.net),
                             !.calls = @ + 1,
                             !.probes = o,
                             !.out = CheckServiceResult(o)]
    /\ UNCHANGED <<monitorOnly, poolVars, hubVars, registryVars, eventVars,
                   fixtureVars>>

InitCheckEngine ==
    /\ InitMonitor
    /\ InitStart(Cardinality(Services))
    /\ InitHub
    /\ \E c \in EngineConfigs, fx \in Networks : InitEngine(c, fx)
    /\ InitRegistry
    /\ InitEvents
    /\ fixture = AllHealthy

NextEngine == EngineCall

SpecEngine == InitCheckEngine /\ [][NextEngine]_vars

\* checker.TestActiveLink called for one record, as Monitor.TestActiveLink
\* calls it without the registry lock.
EngineTest ==
    /\ eng.calls < MaxTests
    /\ eng' = [eng EXCEPT !.calls = @ + 1,
                          !.test = TestActiveLink(eng.cfg, eng.net)]
    /\ UNCHANGED <<monitorOnly, poolVars, hubVars, registryVars, eventVars,
                   fixtureVars>>

NextTestEngine == EngineTest

SpecTestEngine == InitCheckEngine /\ [][NextTestEngine]_vars

\* TryInternalRequest called for one record and one path, each candidate
\* answering with a 4xx status, a 5xx status or not at all.
ProberConfigs ==
    [ID : {"svc1"}, DockerName : {"", "docker1", "svc1"},
     Port : {0, 8155, 8080}, HealthURL : {""}, ExampleURL : {""}]
ProberAnswers == {404, 500, 0}
ProberNetworks ==
    [(EngineHostnames \cup {"svc1"}) \X EnginePorts -> ProberAnswers]

InitProber ==
    /\ InitMonitor
    /\ InitStart(Cardinality(Services))
    /\ InitHub
    /\ \E c \in ProberConfigs, answer \in ProberNetworks :
          InitEngine(c, answer)
    /\ InitRegistry
    /\ InitEvents
    /\ fixture = AllHealthy

ProberCall ==
    /\ eng.calls < MaxProbes
    /\ eng' = [eng EXCEPT !.calls = @ + 1,
                          !.out = TryInternalRequest(eng.cfg, eng.net,
                                                     "/health")]
    /\ UNCHANGED <<monitorOnly, poolVars, hubVars, registryVars, eventVars,
                   fixtureVars>>

NextProber == ProberCall

SpecProber == InitProber /\ [][NextProber]_vars

\* -------------------------------------------------------- the registry
\* r.Services[s.ID] = s on a map: the entry of s.ID is s afterwards, every
\* other entry is as it was.
MapPutIfAbsent(m, k, v) ==
    [x \in (DOMAIN m) \cup {k} |-> IF x \in DOMAIN m THEN m[x] ELSE v]

MapPut(m, k, v) ==
    [x \in (DOMAIN m) \cup {k} |-> IF x = k THEN v ELSE m[x]]

\* Registry.AddService(s), under r.Mu.Lock.
AddService(s) ==
    /\ Len(reg.added) < MaxAdds
    /\ reg' = [reg EXCEPT !.Services = MapPut(@, s.ID, s),
                          !.added = Append(@, s)]
    /\ UNCHANGED <<monitorOnly, poolVars, hubVars, engineVars, eventVars,
                   fixtureVars>>

\* config.LoadServices: the dashboard's own record first, then the records
\* of services.json in the order of the file.
LoadSelf ==
    /\ reg.added = <<>>
    /\ AddService(SelfRecord)

LoadConfigService(s) ==
    /\ reg.added # <<>>
    /\ AddService(s)

\* Registry.Get(id): s, exists := r.Services[id], under r.Mu.RLock.
Get(id) ==
    /\ reg' = [reg EXCEPT !.out =
                  [op |-> "get", at |-> Len(reg.added), id |-> id,
                   exists |-> id \in DOMAIN reg.Services,
                   rec |-> IF id \in DOMAIN reg.Services
                           THEN <<reg.Services[id]>> ELSE <<>>]]
    /\ UNCHANGED <<monitorOnly, poolVars, hubVars, engineVars, eventVars,
                   fixtureVars>>

\* The orders in which `for _, s := range r.Services` may visit the map.
RangeOrders(m) ==
    LET n == Cardinality(DOMAIN m)
    IN {f \in [1..n -> DOMAIN m] : \A i, j \in 1..n : f[i] = f[j] => i = j}

\* Registry.GetAll(): the records of the map in the order the range visits
\* them, under r.Mu.RLock.
GetAll ==
    /\ \E f \in RangeOrders(reg.Services) :
           reg' = [reg EXCEPT !.out =
                     [op |-> "getall", at |-> Len(reg.added),
                      list |-> [i \in DOMAIN f |-> reg.Services[f[i]]]]]
    /\ UNCHANGED <<monitorOnly, poolVars, hubVars, engineVars, eventVars,
                   fixtureVars>>

NextRegistry ==
    \/ LoadSelf
    \/ \E s \in RegistryRecords : LoadConfigService(s)
    \/ \E id \in RegistryIds : Get(id)
    \/ GetAll

SpecRegistry == Init /\ [][NextRegistry]_vars

\* ------------------------------------------------------------ the fleet
\* The ticker's CheckAll over two services whose probes meet the same
\* outcome at every Check Engine invocation.
InitFleet ==
    /\ InitMonitorOf(FleetServices)
    /\ InitStart(Cardinality(FleetServices))
    /\ InitHub
    /\ InitEngineIdle
    /\ InitRegistry
    /\ InitEvents
    /\ fixture \in [FleetServices -> ProbeOutcomes]

\* Mutant: the probes meet any outcome, another one at every invocation.
FleetAttemptAnyOutcome(s) == Attempt("ticker", s)

\* checker.CheckService(svc) meets the fixture of the service.
FleetAttempt(s) ==
    /\ Attempt("ticker", s)
    /\ result'["ticker"][s] = CheckServiceResult(fixture[s])

NextFleet ==
    \/ Tick
    \/ CheckAllStart("ticker")
    \/ CheckAllReturn("ticker")
    \/ \E s \in FleetServices :
         \/ GateLock("ticker", s)
         \/ GateSuppress("ticker", s)
         \/ GatePass("ticker", s)
         \/ FleetAttempt(s)
         \/ Backoff("ticker", s)
         \/ StoreLock("ticker", s)
         \/ WriteBack("ticker", s)
         \/ Broadcast("ticker", s)

SpecFleet == InitFleet /\ [][NextFleet]_vars

\* The fleet with POST /api/test/{id} for its services.
NextFleetTest ==
    \/ NextFleet
    \/ \E id \in FleetServices : TestStart(id)
    \/ TestResult
    \/ TestStore
    \/ TestBroadcast

\* With tests going on: svc1 answers no probe; svc2 answers both, or its
\* example answers 404.
InitFleetTest ==
    /\ InitFleet
    /\ ~fixture["svc1"].healthOK /\ ~fixture["svc1"].exampleOK
    /\ fixture["svc2"].healthOK
    /\ fixture["svc2"].code \in {200, 404}

SpecFleetTest == InitFleetTest /\ [][NextFleetTest]_vars

\* The scheduler runs every goroutine that can take a step; a goroutine
\* waiting for the registry lock gets it after finitely many other holders
\* (sync.Mutex hands the lock to a starving waiter); every HTTP request
\* returns (the client has a timeout).
FleetLock(s) ==
    \/ GateLock("ticker", s)
    \/ StoreLock("ticker", s)

FleetRun(s) ==
    \/ GateSuppress("ticker", s)
    \/ GatePass("ticker", s)
    \/ FleetAttempt(s)
    \/ Backoff("ticker", s)
    \/ WriteBack("ticker", s)
    \/ Broadcast("ticker", s)

SpecFleetTestFair ==
    /\ SpecFleetTest
    /\ WF_vars(TestStore)
    /\ \A s \in FleetServices : SF_vars(FleetLock(s)) /\ WF_vars(FleetRun(s))

\* --------------------------------------------------------- recovery
\* The ticker's cycles for a service whose probes fail in one way until the
\* service is repaired, and meet healthy answers at every Check Engine
\* invocation from then on.
Healthy == CHOOSE o \in ProbeOutcomes : o.healthOK /\ o.exampleOK
Healed(s) == fixture[s] = Healthy

InitRecover ==
    /\ InitMonitor
    /\ InitStart(Cardinality(Services))
    /\ InitHub
    /\ InitEngineIdle
    /\ InitRegistry
    /\ InitEvents
    /\ \E o \in ProbeOutcomes : fixture = [AllHealthy EXCEPT !["svc1"] = o]

\* The service is repaired.
Heal(s) ==
    /\ ~Healed(s)
    /\ fixture' = [fixture EXCEPT ![s] = Healthy]
    /\ UNCHANGED <<monitorOnly, poolVars, hubVars, engineVars, registryVars,
                   eventVars>>

\* A cycle is about to write back a failing verdict.
FailurePending ==
    \E s \in Services :
        /\ pc["ticker"][s] \in {"sleep", "store", "write"}
        /\ result["ticker"][s].Status # "healthy"
        /\ pc["ticker"][s] = "sleep" => ~Healed(s)

\* The wall clock advances; its last period is kept for the time after the
\* last failing verdict, so that every deadline set can pass.
RecoverTick ==
    /\ now + 1 < MaxTime
          \/ (~FailurePending /\ \A s \in Services : Healed(s))
    /\ Tick

RecoverRun(s) ==
    \/ GateLock("ticker", s)
    \/ GateSuppress("ticker", s)
    \/ GatePass("ticker", s)
    \/ FleetAttempt(s)
    \/ Backoff("ticker", s)
    \/ StoreLock("ticker", s)
    \/ WriteBack("ticker", s)
    \/ Broadcast("ticker", s)

RecoverCheckAll ==
    \/ CheckAllStart("ticker")
    \/ CheckAllReturn("ticker")

NextRecover ==
    \/ RecoverTick
    \/ RecoverCheckAll
    \/ \E s \in Services : RecoverRun(s)
    \/ \E s \in Services : Heal(s)

SpecRecover == InitRecover /\ [][NextRecover]_vars

\* Time advances, the ticker goes on calling CheckAll, and the scheduler
\* runs every cycle that can take a step; every HTTP request returns.
SpecRecoverFair ==
    /\ SpecRecover
    /\ WF_vars(RecoverTick)
    /\ WF_vars(RecoverCheckAll)
    /\ \A s \in Services : WF_vars(RecoverRun(s))

\* ------------------------------------------------- the events handler
\* HandleEvents, one call per queue: Subscribe, then the select loop until
\* the request context is done, then the deferred Unsubscribe.  Workers and
\* test handlers broadcast meanwhile.
\* Mutant: the select loop has no case for the context.
SelectNotifyIgnored(k) == k

\* case <-notify: return, which runs the deferred Unsubscribe(ch).
SelectNotify(k) == [k EXCEPT !.pc = "unsubscribe"]

\* A handler is inside m.clientsMu.Lock() of its Unsubscribe.  A blocked
\* Lock keeps later RLock calls waiting (sync.RWMutex).
WriterWaiting ==
    \E c \in ChanIds : conn[c].pc = "unsubscribe" /\ chans[c].state = "open"

\* ch := h.Monitor.Subscribe()
EventsSubscribe(c) == Subscribe(c)

\* The client goes away: r.Context().Done() is closed.
ContextDone(c) ==
    /\ chans[c].state = "open"
    /\ ~conn[c].done
    /\ conn' = [conn EXCEPT ![c].done = TRUE]
    /\ UNCHANGED <<monitorOnly, poolVars, hubVars, engineVars, registryVars,
                   fixtureVars>>

\* select, case <-notify.
EventsSelectDone(c) ==
    /\ chans[c].state = "open"
    /\ conn[c].pc = "select"
    /\ conn[c].done
    /\ conn' = [conn EXCEPT ![c] = SelectNotify(@)]
    /\ UNCHANGED <<monitorOnly, poolVars, hubVars, engineVars, registryVars,
                   fixtureVars>>

\* select, case update := <-ch.
EventsReceive(c) ==
    /\ conn[c].pc = "select"
    /\ Receive(c)

\* defer h.Monitor.Unsubscribe(ch)
EventsUnsubscribe(c) ==
    /\ conn[c].pc = "unsubscribe"
    /\ chans[c].state = "open"
    /\ Unsubscribe(c)

\* broadcast(update) by a worker or a test handler: its RLock waits while a
\* Lock is blocked.
EventsBroadcastBegin(b) ==
    /\ ~WriterWaiting
    /\ \A c \in BroadcastTargets : chans[c].offered + Pending(c) < MaxEvents
    /\ BroadcastBegin(b)

BroadcastRun(b) ==
    \/ \E c \in ChanIds : BroadcastSend(b, c)
    \/ BroadcastEnd(b)

NextEvents ==
    \/ \E c \in ChanIds : EventsSubscribe(c)
    \/ \E c \in ChanIds : ContextDone(c)
    \/ \E c \in ChanIds : EventsSelectDone(c)
    \/ \E c \in ChanIds : EventsReceive(c)
    \/ \E c \in ChanIds : EventsUnsubscribe(c)
    \/ \E b \in Publishers : EventsBroadcastBegin(b)
    \/ \E b \in Publishers : BroadcastRun(b)

SpecEvents == Init /\ [][NextEvents]_vars

\* The scheduler runs a handler that can leave its select or take the lock,
\* and a broadcast that holds the shared lock runs to its end.
SpecEventsFair ==
    /\ SpecEvents
    /\ \A c \in ChanIds : WF_vars(EventsSelectDone(c))
    /\ \A c \in ChanIds : WF_vars(EventsUnsubscribe(c))
    /\ \A b \in Publishers : WF_vars(BroadcastRun(b))

\* ------------------------------------------------------- the two locks
\* The registry lock and the lock of the subscriber set together: the
\* ticker's cycles, test handlers, readers of the registry (HandleStats,
\* HandleListServices: GetAll), one events subscriber, and the broadcasts
\* that the cycles and the tests make at their broadcast position.  The
\* service answers every probe, or none.
Unreachable == CHOOSE o \in ProbeOutcomes : ~o.healthOK /\ ~o.exampleOK

InitLocks ==
    /\ InitMonitor
    /\ InitStart(Cardinality(Services))
    /\ InitHub
    /\ InitEngineIdle
    /\ InitRegistry
    /\ InitEvents
    /\ \E o \in {Healthy, Unreachable} :
          fixture = [AllHealthy EXCEPT !["svc1"] = o]

\* Registry.GetAll: r.Mu.RLock().
GetAllLock ==
    /\ mu = Free
    /\ mu' = <<"reader", "">>
    /\ UNCHANGED <<svc, now, cycleVars, test, verdictLog, unsent>>
    /\ UNCHANGED <<poolVars, hubVars, restVars>>

\* Registry.GetAll: the list is built; defer r.Mu.RUnlock().
GetAllUnlock ==
    /\ mu = <<"reader", "">>
    /\ mu' = Free
    /\ UNCHANGED <<svc, now, cycleVars, test, verdictLog, unsent>>
    /\ UNCHANGED <<poolVars, hubVars, restVars>>

\* The goroutine that calls broadcast as publisher b is inside that call.
AtBroadcast(b) ==
    IF b = "worker" THEN \E s \in Services : pc["ticker"][s] = "broadcast"
    ELSE test.pc = "broadcast"

LocksCheckAll ==
    \/ CheckAllStart("ticker")
    \/ CheckAllReturn("ticker")

LocksCycle(s) ==
    \/ GateLock("ticker", s)
    \/ GateSuppress("ticker", s)
    \/ GatePass("ticker", s)
    \/ FleetAttempt(s)
    \/ Backoff("ticker", s)
    \/ StoreLock("ticker", s)
    \/ WriteBack("ticker", s)
    \/ bc["worker"].pc = "idle" /\ Broadcast("ticker", s)

LocksTest ==
    \/ \E id \in TestIds : TestStart(id)
    \/ TestResult
    \/ TestStore
    \/ bc["tester"].pc = "idle" /\ TestBroadcast
    \/ TestReturn

LocksBroadcast(b) ==
    \/ /\ AtBroadcast(b)
       /\ \A c \in BroadcastTargets : chans[c].offered + Pending(c) < MaxEvents
       /\ BroadcastBegin(b)
    \/ BroadcastRun(b)

LocksSubscriber(c) ==
    \/ Subscribe(c)
    \/ chans[c].state = "open" /\ Unsubscribe(c)
    \/ Receive(c)

NextLocks ==
    \/ LocksCheckAll
    \/ \E s \in Services : LocksCycle(s)
    \/ LocksTest
    \/ GetAllLock
    \/ GetAllUnlock
    \/ \E b \in Publishers : LocksBroadcast(b)
    \/ LocksSubscriber("c1")

SpecLocks == InitLocks /\ [][NextLocks]_vars

\* ------------------------------------------------------------- claims
\* Number of back-to-back non-healthy verdicts at the end of a verdict log.
RECURSIVE NonHealthyRun(_)
NonHealthyRun(log) ==
    IF log = <<>> \/ log[Len(log)] = "healthy" THEN 0
    ELSE 1 + NonHealthyRun(SubSeq(log, 1, Len(log) - 1))

\* The last n entries of a sequence (all of it when it is shorter).
LastN(q, n) ==
    IF Len(q) <= n THEN q ELSE SubSeq(q, Len(q) - n + 1, Len(q))

\* Steps of the cycle of invoker p for service s.
AttemptStep(p, s) == calls'[p][s] = calls[p][s] + 1
SuppressStep(p, s) == pc[p][s] = "gate" /\ pc'[p][s] = "done"
PassStep(p, s) == pc[p][s] = "gate" /\ pc'[p][s] = "attempt"
WriteBackStep(p, s) == pc[p][s] = "write" /\ pc'[p][s] = "broadcast"
TestRequestStep(s) == test.pc = "idle" /\ test'.pc = "probe" /\ test'.id = s

\* C1: while now < circuit_open_until, no operation issues an outbound
\* HTTP request for the service: no Check Engine invocation of any cycle
\* (ticker or refresh) and no on-demand test starts in such a state.
C1_NoRequestWhileCircuitOpen ==
    [][\A s \in Services :
         CircuitOpen(svc[s], now) =>
           /\ \A p \in Invokers : ~AttemptStep(p, s)
           /\ ~TestRequestStep(s)]_vars

\* C2: a cycle that finds now < circuit_open_until at its circuit check
\* invokes the Check Engine zero times, sets status = unhealthy and
\* last_error to the cooldown diagnostic while it holds the registry's
\* exclusive lock, and has released the lock when it returns.
C2_SuppressedCycle ==
    [][\A p \in Invokers, s \in Services :
         (pc[p][s] = "gate" /\ pc'[p][s] # "gate" /\ CircuitOpen(svc[s], now)) =>
           /\ mu = <<p, s>>
           /\ svc'[s].Status = "unhealthy"
           /\ svc'[s].LastError = CircuitOpenMsg
           /\ mu' = Free
           /\ pc'[p][s] = "done"
           /\ calls[p][s] = 0 /\ calls'[p][s] = 0]_vars

C2_Witness ==
    \E p \in Invokers, s \in Services :
        /\ pc[p][s] = "done"
        /\ svc[s].Status = "unhealthy"
        /\ svc[s].LastError = CircuitOpenMsg
        /\ now < svc[s].CircuitOpenUntil

\* C3: a write-back of a non-healthy final verdict increments
\* consecutive_failures by exactly 1; the write-back of the 5th
\* consecutive non-healthy verdict sets circuit_open_until = now + 5 minutes
\* and last_error to the tripped diagnostic; after fewer than 5 the breaker
\* is not open; a healthy verdict sets consecutive_failures = 0 and clears
\* circuit_open_until.
C3_BreakerUpdate ==
    [][\A p \in Invokers, s \in Services :
         WriteBackStep(p, s) =>
           LET v == result[p][s].Status
               run == NonHealthyRun(verdictLog'[s])
           IN /\ v # "healthy" =>
                   svc'[s].ConsecutiveFailures = svc[s].ConsecutiveFailures + 1
              /\ (v # "healthy" /\ run = 5) =>
                   /\ svc'[s].CircuitOpenUntil = now + Cooldown
                   /\ svc'[s].LastError = TrippedMsg
              /\ (v # "healthy" /\ run < 5) =>
                   /\ svc'[s].CircuitOpenUntil = ZeroTime
                   /\ svc'[s].LastError = result[p][s].LastError
              /\ v = "healthy" =>
                   /\ svc'[s].ConsecutiveFailures = 0
                   /\ svc'[s].CircuitOpenUntil = ZeroTime]_vars

C3_Witness ==
    \E s \in Services :
        /\ Len(verdictLog[s]) = 5
        /\ svc[s].ConsecutiveFailures = 5
        /\ svc[s].CircuitOpenUntil = now + Cooldown
        /\ svc[s].LastError = TrippedMsg

\* C4 (as claimed): a cycle that finds the breaker cooled down (it was
\* open and now >= circuit_open_until) puts the service back into the
\* closed state with consecutive_failures = 0 before the probe runs.
C4_CooldownResetsFailures ==
    [][\A p \in Invokers, s \in Services :
         (PassStep(p, s) /\ svc[s].CircuitOpenUntil # ZeroTime) =>
           svc'[s].ConsecutiveFailures = 0]_vars

\* C4 (amended): a cycle that finds the breaker cooled down runs the probe
\* and leaves consecutive_failures (>= 5) and circuit_open_until as they
\* are; the write-back of a non-healthy verdict of such a cycle opens the
\* breaker again at once (one further failure, not five), and only a
\* healthy verdict closes it with consecutive_failures = 0.
C4_CooldownKeepsFailures ==
    [][\A p \in Invokers, s \in Services :
         /\ (PassStep(p, s) /\ svc[s].CircuitOpenUntil # ZeroTime) =>
              /\ svc'[s] = svc[s]
              /\ svc[s].ConsecutiveFailures >= 5
         /\ (WriteBackStep(p, s) /\ svc[s].CircuitOpenUntil # ZeroTime) =>
              IF result[p][s].Status = "healthy"
              THEN /\ svc'[s].ConsecutiveFailures = 0
                   /\ svc'[s].CircuitOpenUntil = ZeroTime
              ELSE /\ svc'[s].ConsecutiveFailures > 5
                   /\ svc'[s].CircuitOpenUntil = now + Cooldown]_vars

\* The breaker re-opened by the first failing cycle after its cooldown.
C4_Witness ==
    \E s \in Services :
        /\ pc["ticker"][s] = "broadcast"
        /\ Len(verdictLog[s]) = 6
        /\ svc[s].ConsecutiveFailures = 6
        /\ svc[s].CircuitOpenUntil = now + Cooldown
        /\ svc[s].LastError = TrippedMsg

\* C5: consecutive_failures equals the number of back-to-back non-healthy
\* verdicts written back since the last healthy one, and once a verdict
\* has been written back it is 0 exactly when the last verdict was healthy.
C5_FailuresCountVerdicts ==
    \A s \in Services :
        /\ svc[s].ConsecutiveFailures = NonHealthyRun(verdictLog[s])
        /\ verdictLog[s] # <<>> =>
             (svc[s].ConsecutiveFailures = 0
                <=> verdictLog[s][Len(verdictLog[s])] = "healthy")

\* Six failures in a row before the clock has advanced: the sixth verdict
\* is that of a refresh cycle overlapping the cycle that tripped the breaker.
C5_Witness ==
    \E s \in Services :
        /\ now = 1
        /\ svc[s].ConsecutiveFailures = 6
        /\ NonHealthyRun(verdictLog[s]) = 6

\* C6: at the end of every per-service cycle, probed (its write-back) or
\* suppressed (its circuit check): consecutive_failures >= 5 implies
\* circuit_open_until > now.
C6_OpenWhenThresholdReached ==
    [][\A p \in Invokers, s \in Services :
         (WriteBackStep(p, s) \/ SuppressStep(p, s)) =>
           (svc'[s].ConsecutiveFailures >= 5 => svc'[s].CircuitOpenUntil > now')]_vars

C6_Witness ==
    \E p \in Invokers, s \in Services :
        /\ pc[p][s] = "broadcast"
        /\ svc[s].ConsecutiveFailures >= 5
        /\ svc[s].CircuitOpenUntil > now

\* C7: status = healthy if and only if health_status = ok and
\* example_status = ok, in every reachable state.
C7_HealthyIffBothOk ==
    \A s \in Services :
        svc[s].Status = "healthy"
          <=> (svc[s].HealthStatus = "ok" /\ svc[s].ExampleStatus = "ok")

C7_Witness ==
    \E s \in Services :
        /\ svc[s].LastError = CircuitOpenMsg
        /\ svc[s].HealthStatus = "ok"
        /\ svc[s].ExampleStatus = "fail"
        /\ svc[s].TestStatus = "passing"
        /\ test.pc = "probe"

\* C8 (as claimed): the newest entry of health_history equals the record's
\* current status.
C8_NewestEqualsStatus ==
    \A s \in Services :
        svc[s].HealthHistory # <<>> =>
          svc[s].HealthHistory[Len(svc[s].HealthHistory)] = svc[s].Status

\* C8 (amended): the newest entry of health_history is the final verdict of
\* the last probed cycle written back; it equals the record's status
\* unless a suppressed circuit-open cycle has since set status = unhealthy
\* with the cooldown diagnostic, which appends nothing to the history.
C8_NewestIsLastVerdict ==
    \A s \in Services :
        svc[s].HealthHistory # <<>> =>
          LET newest == svc[s].HealthHistory[Len(svc[s].HealthHistory)]
          IN /\ newest = verdictLog[s][Len(verdictLog[s])]
             /\ \/ newest = svc[s].Status
                \/ /\ svc[s].Status = "unhealthy"
                   /\ svc[s].LastError = CircuitOpenMsg

C8_Witness ==
    \E s \in Services :
        /\ svc[s].Status = "unhealthy"
        /\ svc[s].LastError = CircuitOpenMsg
        /\ svc[s].HealthHistory[Len(svc[s].HealthHistory)] = "degraded"

\* C9: health_history has at most 5 entries and equals the last min(n, 5)
\* final verdicts of the n probed cycles written back so far, oldest first.
C9_HistoryIsLastFive ==
    \A s \in Services :
        /\ Len(svc[s].HealthHistory) <= 5
        /\ svc[s].HealthHistory = LastN(verdictLog[s], 5)

C9_Witness ==
    \E s \in Services :
        /\ Len(verdictLog[s]) = 6
        /\ Len(svc[s].HealthHistory) = 5
        /\ verdictLog[s][1] = "healthy"
        /\ svc[s].HealthHistory[1] = "degraded"
        /\ svc[s].HealthHistory[5] = "unhealthy"

C11_OneCycleAtATime ==
    \A s \in Services : InFlight(s) <= 1

\* C12: within one CheckAll invocation at most 10 executions of
\* CheckService are in progress at the same time, whatever the number of
\* registered services.
C12_AtMostTenCycles ==
    Sum(running) <= 10

\* Ten cycles in progress while an eleventh service waits in the queue.
C12_Witness ==
    /\ Sum(running) = 10
    /\ jobs.buf # <<>>
    /\ fleet > 10

\* C13: a CheckAll invocation runs CheckService exactly once for every
\* service of its snapshot (never twice, not even in progress twice, and
\* for no service outside the snapshot), and when it has returned every one
\* of these calls has returned.
C13_EachServiceOnce ==
    /\ \A k \in PoolIds :
          /\ running[k] + processed[k] <= 1
          /\ k > fleet => running[k] + processed[k] = 0
    /\ (ca.pc = "idle" /\ rounds > 0) =>
          \A k \in 1..fleet : processed[k] = 1 /\ running[k] = 0

\* A CheckAll over more services than workers has returned.
C13_Witness ==
    /\ ca.pc = "idle"
    /\ rounds = 1
    /\ fleet = MaxServices
    /\ \A k \in 1..fleet : processed[k] = 1

\* C14: provided every Check Engine invocation returns, every CheckAll
\* invocation returns, also with fewer than 10 services or none; enqueuing
\* never finds the job queue full; the queue is closed once; when CheckAll
\* has returned all 10 workers have exited and none waits on the queue.
C14_CheckAllTerminates ==
    /\ [](ca.pc = "enqueue" /\ ca.i < fleet => Len(jobs.buf) < jobs.cap)
    /\ [][jobs'.closed /\ jobs'.cap = jobs.cap /\ ca'.pc = "wait" /\ ca.pc # "wait"
            => ~jobs.closed]_vars
    /\ []((ca.pc = "idle" /\ rounds > 0) =>
            (jobs.closed /\ recv = 0 /\ wg = 0 /\ Exited = 10))
    /\ (ca.pc # "idle") ~> (ca.pc = "idle")

\* A CheckAll over fewer services than workers has returned.
C14_Witness ==
    /\ ca.pc = "idle"
    /\ rounds = 1
    /\ fleet = 3
    /\ Exited = 10
    /\ \A k \in 1..fleet : processed[k] = 1

\* C15: Monitor.Start begins a CheckAll only when none of its own is in
\* progress: the first at startup, before any tick, and each later one on
\* a tick received after the previous CheckAll returned.
C15_StartNeverOverlaps ==
    [][rounds' = rounds + 1 =>
         /\ ca.pc = "idle" /\ wg = 0 /\ recv = 0 /\ Sum(running) = 0
         /\ IF rounds = 0
            THEN loop = "init" /\ ~tickPending
            ELSE loop = "waiting" /\ tickPending /\ ~tickPending']_vars

\* The second CheckAll is running and a tick has already fired again.
C15_Witness ==
    /\ rounds = 2
    /\ loop = "checking"
    /\ tickPending
    /\ Sum(running) > 0

\* A send to queue c: one more update has been offered to it.
SendStep(c) == chans'[c].offered = chans[c].offered + 1

\* C16: broadcast never blocks: every queue it still has to visit can be
\* sent to at once; a send to a queue that holds 50 updates leaves that
\* queue as it is (the update is dropped for it), a send to any other queue
\* appends the update, whatever the other queues hold; a broadcast returns
\* only after it visited every subscriber; no queue ever holds more than 50
\* updates, and a queue nobody has taken from holds exactly the first
\* updates offered to it, 50 at most.
C16_BroadcastDropsWhenFull ==
    /\ [](\A c \in ChanIds :
            /\ Len(chans[c].buf) <= 50
            /\ (chans[c].buf # <<>> /\ Head(chans[c].buf) = 1) =>
                 chans[c].buf = [i \in 1..(IF chans[c].offered < 50
                                            THEN chans[c].offered ELSE 50) |-> i])
    /\ [](\A b \in Publishers : \A c \in bc[b].todo : ENABLED BroadcastSend(b, c))
    /\ [][\A c \in ChanIds :
            SendStep(c) =>
              /\ chans'[c].buf = IF Len(chans[c].buf) = 50 THEN chans[c].buf
                                 ELSE Append(chans[c].buf, chans'[c].offered)
              /\ \A d \in ChanIds \ {c} : chans'[d] = chans[d]]_vars
    /\ [][\A b \in Publishers :
            /\ (bc[b].pc = "range" /\ bc'[b].pc = "idle") => bc[b].todo = {}
            /\ \A c \in bc[b].todo \ bc'[b].todo : SendStep(c)]_vars

\* Queue c1 is full and has lost the 51st update offered to it, while c2,
\* subscribed later, holds every update offered to it, the latest included.
C16_Witness ==
    /\ chans["c1"].offered = 51
    /\ Len(chans["c1"].buf) = 50
    /\ chans["c1"].buf[50] = 50
    /\ chans["c2"].state = "open"
    /\ chans["c2"].offered > 0
    /\ Len(chans["c2"].buf) = chans["c2"].offered
    /\ \A b \in Publishers : bc[b].pc = "idle"

\* C17: a queue is closed at most once, by the Unsubscribe that removes it
\* from the subscriber set; once closed, or while it was never subscribed,
\* no call closes it or changes it, and it is not in the set.
C17_ClosedExactlyOnce ==
    /\ [](\A c \in ChanIds :
            /\ chans[c].closes <= 1
            /\ chans[c].closes = 1 <=> chans[c].state = "closed")
    /\ [][\A c \in ChanIds :
            /\ chans'[c].closes # chans[c].closes =>
                 /\ c \in clients /\ c \notin clients'
                 /\ chans[c].state = "open" /\ chans'[c].state = "closed"
            /\ (c \in clients /\ c \notin clients') => chans'[c].closes = 1
            /\ chans[c].state = "closed" =>
                 (chans'[c] = chans[c] /\ c \notin clients')
            /\ (chans[c].state = "none" /\ chans'[c].state # "none") =>
                 (chans'[c].state = "open" /\ c \in clients')]_vars

\* One queue was unsubscribed and closed while the other is still subscribed
\* and a broadcast is in progress.
C17_Witness ==
    /\ chans["c1"].state = "closed"
    /\ chans["c1"].closes = 1
    /\ chans["c1"].buf # <<>>
    /\ clients = {"c2"}
    /\ readers # {}

\* C18: the subscriber set is exactly the set of queues subscribed and not
\* yet unsubscribed, all of them open; a broadcast only has queues of the set
\* left to visit, and no update is ever sent to a queue that is closed (or
\* not subscribed); the set does not change while a broadcast holds the
\* shared lock.
C18_NoSendOnClosedQueue ==
    /\ [](/\ clients = {c \in ChanIds : chans[c].state = "open"}
          /\ \A b \in Publishers : bc[b].todo \subseteq clients
          /\ readers = {b \in Publishers : bc[b].pc = "range"})
    /\ [][/\ \A c \in ChanIds : SendStep(c) => chans[c].state = "open"
          /\ readers # {} => clients' = clients]_vars

\* Two broadcasts are in progress at once, after one queue was closed, with
\* the other queue still to be visited by both.
C18_Witness ==
    /\ \A b \in Publishers : bc[b].pc = "range" /\ bc[b].todo = {"c2"}
    /\ chans["c1"].state = "closed"
    /\ chans["c1"].offered > 0
    /\ chans["c2"].offered > 0

BroadcastStep(p, s) == pc[p][s] = "broadcast" /\ pc'[p][s] = "done"

\* C19: updates are broadcast in the order of their write-backs: when a
\* cycle broadcasts the update of a service, its write-back is the oldest
\* one of that service still awaiting its broadcast, so no subscriber is
\* sent the update of a later write-back before that of an earlier one.
C19_BroadcastInWriteBackOrder ==
    [][\A p \in Invokers, s \in Services :
         BroadcastStep(p, s) => Head(unsent[s]) = p]_vars

\* C20: the ServiceUpdate a probed cycle broadcasts carries the status this
\* same cycle wrote back, which is the verdict of its own probe, not a
\* status stored in between by another cycle or by a suppressed cycle.
C20_BroadcastsOwnWriteBack ==
    [][\A p \in Invokers, s \in Services :
         BroadcastStep(p, s) =>
             ServiceUpdateOf(s).Status = result[p][s].Status]_vars

\* A call of the Check Engine has returned.
EngineStep == eng'.calls = eng.calls + 1

RECURSIVE Range(_)
Range(q) == IF q = <<>> THEN {} ELSE {Head(q)} \cup Range(Tail(q))

\* C22: a Check Engine invocation changes no field of any record that the
\* monitor or the test engine writes (status, health_status, example_status,
\* last_error, health_history, consecutive_failures, circuit_open_until,
\* test_status, test_error) and not the port or the URLs; the one field it
\* may change is docker_name of the probed record, and then to a host of
\* that record which answered the internal liveness request.
C22_EngineWritesDockerNameOnly ==
    [][EngineStep =>
         /\ svc' = svc
         /\ eng'.cfg = [eng.cfg EXCEPT !.DockerName = eng'.cfg.DockerName]
         /\ eng'.cfg.DockerName # eng.cfg.DockerName =>
              /\ eng'.cfg.DockerName \in eng.net.up
              /\ eng'.cfg.DockerName \in Range(GetInternalHosts(eng.cfg))]_vars

\* The docker name was refined to the "<id>-app-1" host, the only one that
\* answers, by a call that found the service healthy.
C22_Witness ==
    /\ eng.calls = 1
    /\ eng.cfg.DockerName = "svc1-app-1"
    /\ eng.net.up = {"svc1-app-1"}
    /\ eng.out.Status = "healthy"

\* C28: a degraded verdict means liveness ok, example fail and a 4xx status
\* code of the public example response.
C28_DegradedMeans4xx ==
    (eng.calls > 0 /\ eng.out.Status = "degraded") =>
        /\ eng.out.HealthStatus = "ok"
        /\ eng.out.ExampleStatus = "fail"
        /\ eng.probes.code >= 400 /\ eng.probes.code < 500

\* C30: the verdict as a function of the liveness signal, the example signal
\* and the status code of the public example response: healthy iff both
\* signals are ok; unhealthy with the liveness diagnostic whenever liveness
\* failed; unhealthy with the example diagnostic when only the example
\* failed with a status code >= 500 or 0; degraded with the example
\* diagnostic in the remaining case; the diagnostic is empty exactly for a
\* healthy verdict.
C30_VerdictFunction ==
    eng.calls > 0 =>
        LET o == eng.probes
            r == eng.out
        IN /\ r.Status = "healthy" <=> (o.healthOK /\ o.exampleOK)
           /\ ~o.healthOK =>
                (r.Status = "unhealthy" /\ r.LastError = o.healthError)
           /\ (o.healthOK /\ ~o.exampleOK /\ (o.code >= 500 \/ o.code = 0)) =>
                (r.Status = "unhealthy" /\ r.LastError = o.exampleError)
           /\ (o.healthOK /\ ~o.exampleOK /\ o.code > 0 /\ o.code < 500) =>
                (r.Status = "degraded" /\ r.LastError = o.exampleError)
           /\ r.LastError = "" <=> r.Status = "healthy"
           /\ r.HealthStatus = (IF o.healthOK THEN "ok" ELSE "fail")
           /\ r.ExampleStatus = (IF o.exampleOK THEN "ok" ELSE "fail")

\* Liveness was ok through the public health URL and the example URL
\* answered 500, inside the network too: unhealthy, example diagnostic.
C30_Witness ==
    /\ eng.calls > 0
    /\ eng.probes.healthOK
    /\ eng.probes.healthError # ""
    /\ eng.probes.code = 500
    /\ eng.out.Status = "unhealthy"
    /\ eng.out.LastError = "Public HTTP | Internal also failed"

\* C21: every step of a cycle that reads or writes a mutable field of the
\* record (the circuit check, the write-back, and the read of status and
\* last_error for the ServiceUpdate to broadcast) is taken while the cycle
\* holds the registry lock.
C21_RecordAccessUnderLock ==
    [][\A p \in Invokers, s \in Services :
         (SuppressStep(p, s) \/ PassStep(p, s) \/ WriteBackStep(p, s)
            \/ BroadcastStep(p, s)) => mu = <<p, s>>]_vars

\* Steps of the on-demand test in progress.
TestStoreStep == test.pc = "store" /\ test'.pc = "broadcast"
TestBroadcastStep == test.pc = "broadcast" /\ test'.pc = "idle"

\* C23: an on-demand test of a registered id writes test_status (passing or
\* failed) and test_error of that record while it holds the registry lock
\* exclusively, and no step of the test changes any other field of any
\* record; the test then broadcasts one ServiceUpdate for that id, which
\* carries the status the record has at that moment and the test_status and
\* test_error just stored, and only then returns.
C23_TestWritesTestFieldsOnly ==
    [][/\ TestStoreStep =>
            /\ mu = <<"tester", test.id>>
            /\ test.res.Status \in {"passing", "failed"}
            /\ svc' = [svc EXCEPT ![test.id].TestStatus = test.res.Status,
                                  ![test.id].TestError = test.res.Error]
       /\ (test' # test /\ ~TestStoreStep) => svc' = svc
       /\ (test.pc = "store" /\ test' # test) => TestStoreStep
       /\ (test.id \in Services /\ test'.pc = "idle" /\ test' # test) =>
            TestBroadcastStep
       /\ TestBroadcastStep =>
            LET u == TestUpdateOf(test.id, test.res)
            IN /\ u.ServiceID = test.id
               /\ u.Status = svc[test.id].Status
               /\ u.TestStatus = svc[test.id].TestStatus
               /\ u.TestError = svc[test.id].TestError]_vars

\* A failed test of a degraded service is about to be broadcast while the
\* ticker's next cycle for the service is in its retry loop.
C23_Witness ==
    \E s \in Services :
        /\ test.pc = "broadcast"
        /\ test.id = s
        /\ svc[s].TestStatus = "failed"
        /\ svc[s].Status = "degraded"
        /\ svc[s].ConsecutiveFailures > 0
        /\ pc["ticker"][s] = "sleep"

\* C24: POST /api/test/{id} for an id that is not registered is answered
\* with HTTP 404.
C24_UnknownIdIs404 ==
    (test.pc = "reply" /\ test.id \notin Services) => test.http = 404

\* The ids among the first n records passed to AddService, and the last of
\* those records that carries the id.
AddedIds(n) == {reg.added[i].ID : i \in 1..n}
LastAdded(n, id) ==
    reg.added[CHOOSE i \in 1..n :
                /\ reg.added[i].ID = id
                /\ \A j \in (i + 1)..n : reg.added[j].ID # id]

\* C29: the registry holds exactly one record for each id that was ever
\* added, the one added last under that id; no step removes an id; Get(id)
\* reports found exactly for the ids added before the call and returns that
\* record; GetAll returns one record per id added before the call, in some
\* order, and no id twice.
C29_RegistryIsAMapById ==
    /\ [](/\ DOMAIN reg.Services = AddedIds(Len(reg.added))
          /\ \A id \in DOMAIN reg.Services :
                reg.Services[id] = LastAdded(Len(reg.added), id)
          /\ reg.out.op = "get" =>
                /\ reg.out.exists <=> reg.out.id \in AddedIds(reg.out.at)
                /\ reg.out.exists =>
                      reg.out.rec = <<LastAdded(reg.out.at, reg.out.id)>>
                /\ ~reg.out.exists => reg.out.rec = <<>>
          /\ reg.out.op = "getall" =>
                /\ Len(reg.out.list) = Cardinality(AddedIds(reg.out.at))
                /\ {reg.out.list[i].ID : i \in 1..Len(reg.out.list)}
                      = AddedIds(reg.out.at)
                /\ \A i \in 1..Len(reg.out.list) :
                      reg.out.list[i]
                         = LastAdded(reg.out.at, reg.out.list[i].ID))
    /\ [][DOMAIN reg.Services \subseteq DOMAIN reg'.Services]_vars

\* An id was added twice with different records, another id once, and
\* GetAll has answered with the two records after that.
C29_Witness ==
    /\ reg.out.op = "getall"
    /\ reg.out.at = Len(reg.added)
    /\ Len(reg.out.list) = 2
    /\ \E i, j \in 1..Len(reg.added) :
          /\ i < j
          /\ reg.added[i].ID = reg.added[j].ID
          /\ reg.added[i] # reg.added[j]

\* C27: once the request context of an events handler is done, the handler
\* leaves its select loop, and its queue is removed from the subscriber set
\* and closed, exactly once; from then on no broadcast offers an update to
\* the queue and nothing else changes it.
C27_SubscriberCleanedUp ==
    /\ \A c \in ChanIds :
          conn[c].done ~>
             /\ conn[c].pc = "unsubscribe"
             /\ c \notin clients
             /\ chans[c].state = "closed"
             /\ chans[c].closes = 1
    /\ [][\A c \in ChanIds :
             chans[c].state = "closed" =>
                /\ chans'[c] = chans[c]
                /\ c \notin clients'
                /\ \A b \in Publishers : c \notin bc'[b].todo]_vars

\* A handler was cleaned up while a broadcast was visiting the queues, and
\* the other queue was offered an update that the closed one was not.
C27_Witness ==
    \E c, d \in ChanIds :
        /\ conn[c].done
        /\ chans[c].state = "closed"
        /\ c \notin clients
        /\ d \in clients
        /\ chans[d].offered > chans[c].offered
        /\ \E b \in Publishers : bc[b].pc = "range"

\* C26: a step of the cycle of one service, or of a test for it, changes no
\* other service's record, and a record changes only in its own cycle's
\* Suppress or write-back or in a test for it; every cycle that a CheckAll
\* starts ends, whatever the other services answer, and it ends with a
\* write-back and its broadcast unless the service's own breaker is open.
C26_BadRecordAffectsNoOther ==
    /\ [][\A s \in FleetServices :
             /\ svc'[s] # svc[s] =>
                   \/ /\ pc["ticker"][s] \in {"gate", "write"}
                      /\ pc'["ticker"][s] # pc["ticker"][s]
                   \/ test.id = s /\ TestStoreStep
             /\ (pc["ticker"][s] # "done" /\ pc'["ticker"][s] = "done") =>
                   \/ pc["ticker"][s] = "gate" /\ CircuitOpen(svc[s], now)
                   \/ pc["ticker"][s] = "broadcast"]_vars
    /\ \A s \in FleetServices :
          (pc["ticker"][s] = "start") ~> (pc["ticker"][s] = "done")

\* In one CheckAll the cycle of svc1 was suppressed by its open breaker
\* and the cycle of svc2, tested before, has been written back.
C26_Witness ==
    /\ pc["ticker"]["svc1"] = "done"
    /\ CircuitOpen(svc["svc1"], now)
    /\ svc["svc1"].LastError = CircuitOpenMsg
    /\ pc["ticker"]["svc2"] = "broadcast"
    /\ Len(verdictLog["svc2"]) = Len(verdictLog["svc1"]) + 1
    /\ svc["svc2"].TestStatus = "failed"

\* A record without its history and its timestamps.
ApartFromHistoryAndTime(r) ==
    [r EXCEPT !.HealthHistory = <<>>, !.CircuitOpenUntil = ZeroTime,
              !.LastChecked = ZeroTime]

\* A step of the ticker's cycle for s that writes the record which an
\* earlier CheckAll has written.
RewriteStep(s) ==
    /\ Len(verdictLog[s]) >= 1
    /\ SuppressStep("ticker", s) \/ WriteBackStep("ticker", s)

\* C25 as stated: with every service's probe outcome fixed, a further
\* CheckAll leaves every record as the CheckAll before it left it, apart
\* from health_history and timestamps.
C25_SecondRunSameRecord ==
    [][\A s \in FleetServices :
          RewriteStep(s) =>
             ApartFromHistoryAndTime(svc'[s]) = ApartFromHistoryAndTime(svc[s])]_vars

\* C25: with every service's probe outcome fixed, a further CheckAll leaves
\* the record of a service that probes healthy as it was, apart from
\* health_history.  For a service that probes non-healthy, a further probed
\* cycle keeps health_status and example_status and adds 1 to
\* consecutive_failures; while the counter stays below 5 the record is
\* otherwise as it was apart from health_history; from 5 on last_error is
\* the breaker's diagnostic and circuit_open_until is now + cooldown.  A
\* cycle suppressed by the open breaker sets status unhealthy and the
\* cooldown diagnostic and nothing else.
C25_SecondRunByFixture ==
    [][\A s \in FleetServices :
          LET r == svc[s]
              q == svc'[s]
              v == CheckServiceResult(fixture[s])
          IN /\ (RewriteStep(s) /\ v.Status = "healthy") =>
                   /\ WriteBackStep("ticker", s)
                   /\ ApartFromHistoryAndTime(q) = ApartFromHistoryAndTime(r)
                   /\ q.CircuitOpenUntil = ZeroTime
                   /\ q.ConsecutiveFailures = 0
             /\ (RewriteStep(s) /\ WriteBackStep("ticker", s)
                    /\ v.Status # "healthy") =>
                   /\ q.Status = v.Status
                   /\ q.HealthStatus = r.HealthStatus
                   /\ q.ExampleStatus = r.ExampleStatus
                   /\ q.ConsecutiveFailures = r.ConsecutiveFailures + 1
                   /\ q.ConsecutiveFailures < FailureThreshold =>
                         ApartFromHistoryAndTime(q) =
                            ApartFromHistoryAndTime(
                               [r EXCEPT !.ConsecutiveFailures = @ + 1])
                   /\ q.ConsecutiveFailures >= FailureThreshold =>
                         /\ q.LastError = TrippedMsg
                         /\ q.CircuitOpenUntil = now + Cooldown
             /\ (RewriteStep(s) /\ SuppressStep("ticker", s)) =>
                   /\ r.ConsecutiveFailures >= FailureThreshold
                   /\ q = [r EXCEPT !.Status = "unhealthy",
                                    !.LastError = CircuitOpenMsg]]_vars

\* After several runs: svc1, whose example answers 404, has tripped its
\* breaker and was suppressed since; svc2, which answers both probes, has
\* been written back at least twice.
C25_Witness ==
    /\ fixture["svc1"].healthOK /\ fixture["svc1"].code = 404
    /\ svc["svc1"].ConsecutiveFailures >= FailureThreshold
    /\ svc["svc1"].LastError = CircuitOpenMsg
    /\ svc["svc1"].HealthStatus = "ok"
    /\ fixture["svc2"].healthOK /\ fixture["svc2"].exampleOK
    /\ Len(verdictLog["svc2"]) >= 2
    /\ svc["svc2"].Status = "healthy"
    /\ \A s \in FleetServices : pc["ticker"][s] = "idle"

\* C40: a test of an id that is not registered never reaches the probe, the
\* store or the broadcast: the lookup is followed at once by the return of
\* an empty status and an empty diagnostic, then the handler returns; no
\* step of such a test takes the registry lock or changes a record.
C40_UnknownIdDoesNothing ==
    [][/\ (test'.id \notin Services /\ test' # test) =>
            \/ test' = IdleTest
            \/ /\ test = IdleTest
               /\ test'.pc = "reply"
               /\ test'.body.test_status = ""
               /\ test'.body.test_error = ""
       /\ (test.id \notin Services /\ test # IdleTest /\ test' # test) =>
            /\ test.pc = "reply"
            /\ test' = IdleTest
       /\ ((test.id \notin Services \/ test'.id \notin Services)
              /\ test' # test) =>
            /\ svc' = svc
            /\ mu' = mu
            /\ unsent' = unsent]_vars

\* The handler holds the answer for an id that is not registered, after a
\* test of the registered service has stored a result.
C40_Witness ==
    /\ test.pc = "reply"
    /\ test.id = "nosuch"
    /\ \E s \in Services : svc[s].TestStatus = "failed"

\* C37: for every service, in every state, whatever the interleaving of
\* overlapping cycles: circuit_open_until is set (not the zero time) if and
\* only if consecutive_failures >= 5.
C37_OpenUntilSetIffThreshold ==
    \A s \in Services :
        svc[s].CircuitOpenUntil # ZeroTime
           <=> svc[s].ConsecutiveFailures >= FailureThreshold

\* Two cycles of the service overlap while its breaker is set, after the
\* cooldown has passed.
C37_Witness ==
    \E s \in Services :
        /\ svc[s].CircuitOpenUntil # ZeroTime
        /\ svc[s].ConsecutiveFailures > FailureThreshold
        /\ ~CircuitOpen(svc[s], now)
        /\ InFlight(s) = 2

\* C36: a cycle that finds the breaker open changes status and last_error
\* of its record and no other field of it (health_history,
\* consecutive_failures, circuit_open_until, last_checked, response_ms,
\* health_status, example_status, version and the test fields stay), changes
\* no other record, and returns without reaching the broadcast: nothing is
\* written back or left to be broadcast.
C36_SuppressedCycleFrame ==
    [][\A p \in Invokers, s \in Services :
         (pc[p][s] = "gate" /\ pc'[p][s] # "gate" /\ CircuitOpen(svc[s], now)) =>
           /\ svc' = [svc EXCEPT ![s].Status = "unhealthy",
                                 ![s].LastError = CircuitOpenMsg]
           /\ pc'[p][s] = "done"
           /\ verdictLog' = verdictLog
           /\ unsent' = unsent]_vars

\* A suppressed cycle has returned; the record still carries what the
\* write-backs before it stored.
C36_Witness ==
    \E p \in Invokers, s \in Services :
        /\ pc[p][s] = "done"
        /\ CircuitOpen(svc[s], now)
        /\ svc[s].LastError = CircuitOpenMsg
        /\ svc[s].HealthStatus = "ok"
        /\ svc[s].Version = "1.0.0"
        /\ svc[s].LastChecked # ZeroTime
        /\ svc[s].ResponseMs > 0
        /\ Len(svc[s].HealthHistory) = HistoryLimit

Recovered(s) ==
    /\ svc[s].Status = "healthy"
    /\ svc[s].ConsecutiveFailures = 0
    /\ svc[s].CircuitOpenUntil = ZeroTime

\* C38: once every Check Engine invocation for a service returns healthy,
\* the record eventually has status healthy, consecutive_failures = 0 and
\* circuit_open_until cleared, whatever the breaker's state was at that
\* point; in particular an open breaker does not stay open.
C38_Recovery ==
    \A s \in Services :
        /\ Healed(s) ~> Recovered(s)
        /\ (Healed(s) /\ CircuitOpen(svc[s], now)) ~> ~CircuitOpen(svc[s], now)

\* The service has recovered in the write-back that followed five failing
\* ones, the last of which had opened the breaker.
C38_Witness ==
    \E s \in Services :
        /\ Healed(s)
        /\ Recovered(s)
        /\ Len(verdictLog[s]) = FailureThreshold + 1
        /\ \A i \in 1..FailureThreshold : verdictLog[s][i] # "healthy"


\* C39: no goroutine holds the registry lock and the subscriber-set lock at
\* the same time, none holds either of them across an HTTP request, a sleep
\* or a blocking send, every holder's next step is enabled and releases the
\* lock, so the cycles, the tests, the readers and the subscribers never
\* block one another for good.
RegistryHolderReleases ==
    \/ mu = Free
    \/ /\ mu[1] = "ticker"
       /\ pc["ticker"][mu[2]] \in {"gate", "write"}
       /\ ENABLED (\/ GateSuppress("ticker", mu[2])
                   \/ GatePass("ticker", mu[2])
                   \/ WriteBack("ticker", mu[2]))
    \/ /\ mu[1] = "tester"
       /\ test.pc = "store"
       /\ ENABLED TestStore
    \/ /\ mu[1] = "reader"
       /\ ENABLED GetAllUnlock

SubscriberSetHolderReleases ==
    \A b \in readers :
        /\ bc[b].pc = "range"
        /\ AtBroadcast(b)
        /\ mu # Free => mu[1] # (IF b = "worker" THEN "ticker" ELSE "tester")
        /\ \A c \in bc[b].todo : ENABLED BroadcastSend(b, c)
        /\ ENABLED BroadcastRun(b)

NoLockWhileBlocked ==
    /\ \A s \in Services :
          pc["ticker"][s] \in {"attempt", "sleep", "broadcast"}
              => mu # <<"ticker", s>>
    /\ test.pc \in {"probe", "broadcast", "reply"}
          => (mu = Free \/ mu[1] # "tester")
    /\ \A b \in Publishers : bc[b].pc = "idle" => b \notin readers

C39_NoDeadlock ==
    /\ RegistryHolderReleases
    /\ SubscriberSetHolderReleases
    /\ NoLockWhileBlocked

\* A test holds the registry lock for its store while a cycle's broadcast
\* holds the subscriber-set lock with a send still to make.
C39_Witness ==
    /\ mu # Free
    /\ mu[1] = "tester"
    /\ "worker" \in readers
    /\ bc["worker"].todo # {}

\* The requests of the last call's example step that went to a candidate.
InternalExampleRequests ==
    {i \in DOMAIN eng.probes.exampleSent :
        eng.probes.exampleSent[i].kind = "internal"}

\* The public example answer was a 2xx/3xx that is not HTML.
PublicAnswerOK ==
    /\ ExampleCode(eng.net.publicExample) >= 200
    /\ ExampleCode(eng.net.publicExample) < 400
    /\ eng.net.publicExample # "html200"

\* A candidate host of the record answers the example path with a 2xx/3xx.
InternalAnswerOK ==
    /\ InternalExampleCode(eng.net.internalExample) >= 200
    /\ InternalExampleCode(eng.net.internalExample) < 400
    /\ \E h \in Range(GetInternalHosts(eng.cfg)) : h \in eng.net.up

\* C31: with example_url set, the example signal is ok iff the public
\* request returned a 2xx/3xx that is not HTML, or it did not and the
\* internal request on the extracted path returned a 2xx/3xx; the internal
\* request is sent only when the public one was not ok; with example_url
\* absent the signal is ok and no example request is sent; liveness ok with
\* a public 200 HTML answer and no internal 2xx/3xx gives example fail and
\* the verdict degraded.
C31_ExampleSignal ==
    eng.calls > 0 =>
        /\ eng.cfg.ExampleURL # "" =>
             /\ eng.probes.exampleOK <=> (PublicAnswerOK \/ InternalAnswerOK)
             /\ eng.probes.exampleSent # <<>>
             /\ eng.probes.exampleSent[1] = PublicRequest(eng.cfg.ExampleURL)
             /\ InternalExampleRequests # {} <=> ~PublicAnswerOK
             /\ \A i \in InternalExampleRequests :
                  eng.probes.exampleSent[i].path
                      = GetPathFromURL(eng.cfg.ExampleURL)
        /\ eng.cfg.ExampleURL = "" =>
             /\ eng.probes.exampleOK
             /\ eng.probes.exampleSent = <<>>
        /\ (/\ eng.cfg.ExampleURL # ""
            /\ eng.probes.healthOK
            /\ eng.net.publicExample = "html200"
            /\ ~InternalAnswerOK) =>
             /\ eng.out.ExampleStatus = "fail"
             /\ eng.out.Status = "degraded"

\* Liveness ok, the public example URL answered 200 with HTML, the
\* candidates were asked and answered 404: example fail, degraded.
C31_Witness ==
    /\ eng.calls > 0
    /\ eng.probes.healthOK
    /\ eng.net.publicExample = "html200"
    /\ eng.net.internalExample = "http404"
    /\ InternalExampleRequests # {}
    /\ eng.out.ExampleStatus = "fail"
    /\ eng.out.Status = "degraded"

\* A candidate host of the record answers /health with status 200.
InternalHealth200 ==
    /\ HealthCode(eng.net.internalHealth) = 200
    /\ \E h \in Range(GetInternalHosts(eng.cfg)) : h \in eng.net.up

\* The body parses as JSON and its status field carries a value that is
\* neither healthy nor ok.
ExplicitlyDisagrees(a) ==
    /\ ~Decode(a).err
    /\ Decode(a).Status # ""
    /\ Decode(a).Status \notin {"healthy", "ok"}

\* The requests of the last call's liveness step that went to health_url.
PublicHealthRequests ==
    {i \in DOMAIN eng.probes.healthSent :
        eng.probes.healthSent[i].kind = "public"}

\* C32: after a 200 answer to the internal liveness request, liveness is
\* fail only when the body parses as JSON and its status field explicitly
\* carries a value other than healthy or ok; a body that is not JSON, or
\* that parses without disagreeing, is ok; and the public health_url is not
\* requested, whether the 200 answer counted as ok or as fail.
C32_LivenessOn200 ==
    (eng.calls > 0 /\ InternalHealth200) =>
        /\ eng.probes.healthOK <=> ~ExplicitlyDisagrees(eng.net.internalHealth)
        /\ PublicHealthRequests = {}

\* C34: after any sequence of checks, docker_name refinements included, the
\* candidates of a record with a non-empty id still contain the hosts
\* localhost and "<id>-app-1" and the port 8080.
C34_FallbackCandidatesKept ==
    (eng.calls > 0 /\ eng.cfg.ID # "") =>
        /\ "localhost" \in Range(GetInternalHosts(eng.cfg))
        /\ (eng.cfg.ID \o "-app-1") \in Range(GetInternalHosts(eng.cfg))
        /\ 8080 \in Range(GetInternalPorts(eng.cfg))

\* The candidate hosts and ports as the claim lists them: localhost, the
\* docker name if non-empty, "<id>-app-1", each name once; the port if
\* positive, then 8080 if that is another one.
ListedHosts(c) ==
    Deduplicate(<<"localhost">>
                \o (IF c.DockerName # "" THEN <<c.DockerName>> ELSE <<>>)
                \o <<c.ID \o "-app-1">>, {})
ListedPorts(c) ==
    (IF c.Port > 0 THEN <<c.Port>> ELSE <<>>)
    \o (IF c.Port # 8080 THEN <<8080>> ELSE <<>>)
ListedCandidates(c) ==
    [k \in 1..(Len(ListedHosts(c)) * Len(ListedPorts(c))) |->
        <<ListedHosts(c)[((k - 1) \div Len(ListedPorts(c))) + 1],
          ListedPorts(c)[((k - 1) % Len(ListedPorts(c))) + 1]>>]

Answered(code) == code >= 200 /\ code < 500

\* The first candidate of the list, in order, that answers.
FirstAnswering(cands, answer) ==
    IF \E k \in DOMAIN cands : Answered(answer[cands[k]])
    THEN CHOOSE k \in DOMAIN cands :
             /\ Answered(answer[cands[k]])
             /\ \A j \in 1..(k - 1) : ~Answered(answer[cands[j]])
    ELSE 0

\* The Prober's result agrees with a candidate list: the requests went to
\* its candidates in order, one each, up to the first that answers and to
\* none after it; that candidate's status and URL are returned without
\* error; when none answers there is no response and the error is that of
\* the last candidate.
ProberFollows(cands, answer, r) ==
    LET k == FirstAnswering(cands, answer)
        n == IF k = 0 THEN Len(cands) ELSE k
        last == cands[Len(cands)]
    IN /\ Len(r.tried) = n
       /\ \A i \in 1..n :
            r.tried[i] = InternalRequest(TargetURL(cands[i][1], cands[i][2],
                                                   "/health"))
       /\ k # 0 =>
            /\ r.err = NoErr
            /\ r.status = answer[cands[k]]
            /\ r.url = TargetURL(cands[k][1], cands[k][2], "/health")
       /\ k = 0 =>
            /\ r.status = 0
            /\ r.url = NoURL
            /\ r.err = IF answer[last] = 0
                       THEN TransportErr(TargetURL(last[1], last[2],
                                                   "/health"))
                       ELSE StatusErr(answer[last])

\* C33: the Prober tries the candidates one at a time in host-major order
\* (hosts: localhost, docker_name if non-empty, "<id>-app-1", duplicates
\* removed; ports: port if positive, then 8080 if different), returns the
\* first that answers without transport error with a status in [200,500)
\* together with its URL, contacts no candidate after it, and when none
\* answers returns no response and the error of the last candidate tried; a
\* status of 500 or more counts as a failed attempt.
C33_ProberOrder ==
    eng.calls > 0 => ProberFollows(ListedCandidates(eng.cfg), eng.net, eng.out)

\* The same for the candidates that GetInternalHosts and GetInternalPorts
\* give.
ProberFollowsCandidates ==
    eng.calls > 0 => ProberFollows(Candidates(eng.cfg), eng.net, eng.out)

\* The status that the candidates of the record answer a test with: that
\* of the example path if example_url is set, of /health otherwise; 0 if
\* no candidate answers.
TestAnswerCode ==
    IF \A h \in Range(GetInternalHosts(eng.cfg)) : h \notin eng.net.up THEN 0
    ELSE IF eng.cfg.ExampleURL # ""
    THEN InternalExampleCode(eng.net.internalExample)
    ELSE HealthCode(eng.net.internalHealth)

=========================================================================
